---- MODULE Spec2Model ----
(***************************************************************************)
(* FlipTrackr: the quick-entry parser (src/utils/parseLineItem.ts), the    *)
(* SQLite store and computeTotals (src/db/sqlite.ts), and the flip sheet   *)
(* screen (src/screens/FlipSheet.tsx).                                     *)
(*                                                                         *)
(* Strings are sequences of one-character strings.  The numbers of the     *)
(* quick-entry evaluator are IEEE 754 binary64 values, every operation     *)
(* rounded as JavaScript rounds it.  The store and the flip sheet compute  *)
(* on pairs <<n, d>>: the rational n/d in lowest terms when d > 0, and     *)
(* <<1,0>> = Infinity, <<-1,0>> = -Infinity, <<0,0>> = NaN; their prices   *)
(* and amounts are small integers, on which binary64 sums and differences  *)
(* are exact, and the one quotient they take (roi) is kept as the exact    *)
(* rational.                                                               *)
(***************************************************************************)
EXTENDS Integers, Sequences, FiniteSets, TLC

(***************************************************************************)
(* Bounds                                                                  *)
(***************************************************************************)
MaxInputLen == 4

MaxFlips == 2

MaxItems == 2

(***************************************************************************)
(* Rational numbers                                                       *)
(***************************************************************************)
\* const x = e: ValueOf({body : x \in {e}}) is body with x standing for the
\* value of e, computed once
ValueOf(S) == CHOOSE v \in S : TRUE

RECURSIVE Gcd(_, _)
Gcd(a, b) == IF b = 0 THEN a ELSE ValueOf({Gcd(y, x % y) : x \in {a}, y \in {b}})

Abs(x) == IF x < 0 THEN 0 - x ELSE x

Sign(x) == IF x > 0 THEN 1 ELSE IF x < 0 THEN 0 - 1 ELSE 0

NaN == <<0, 0>>

PosInf == <<1, 0>>

NegInf == <<0 - 1, 0>>

\* the rational n/d (d # 0) in lowest terms with a positive denominator
Rat(n, d) ==
  ValueOf({ValueOf({<<(Sign(y) * x) \div g, (Sign(y) * y) \div g>> :
                    g \in {Gcd(Abs(x), Abs(y))}}) :
           x \in {n}, y \in {d}})

Num(k) == <<k, 1>>

isNaN(x) == x = NaN

IsFinite(x) == x[2] > 0

\* x + y
NumAdd(left, right) ==
  ValueOf({IF IsFinite(x) /\ IsFinite(y) THEN Rat(x[1] * y[2] + y[1] * x[2], x[2] * y[2])
           ELSE IF isNaN(x) \/ isNaN(y) THEN NaN
           ELSE IF IsFinite(x) THEN y
           ELSE IF IsFinite(y) THEN x
           ELSE IF x = y THEN x ELSE NaN :
           x \in {left}, y \in {right}})

\* -x
NumNeg(operand) == ValueOf({<<0 - x[1], x[2]>> : x \in {operand}})

\* x - y
NumSub(x, y) == NumAdd(x, NumNeg(y))

\* x * y
NumMul(left, right) ==
  ValueOf({IF IsFinite(x) /\ IsFinite(y) THEN Rat(x[1] * y[1], x[2] * y[2])
           ELSE IF isNaN(x) \/ isNaN(y) THEN NaN
           ELSE <<Sign(x[1]) * Sign(y[1]), 0>> :
           x \in {left}, y \in {right}})

\* x / y
NumDiv(left, right) ==
  ValueOf({IF isNaN(x) \/ isNaN(y) THEN NaN
           ELSE IF IsFinite(x) /\ IsFinite(y)
                THEN IF y[1] = 0 THEN <<Sign(x[1]), 0>>
                     ELSE Rat(x[1] * y[2], x[2] * y[1])
           ELSE IF IsFinite(y) THEN <<x[1] * (IF y[1] < 0 THEN 0 - 1 ELSE 1), 0>>
           ELSE IF IsFinite(x) THEN Num(0)
           ELSE NaN :
           x \in {left}, y \in {right}})

\* a comparison with zero that is never true
NumLeqZero_Never(operand) == FALSE

\* x <= 0 (false for NaN)
NumLeqZero(operand) == \E x \in {operand} : ~isNaN(x) /\ x[1] <= 0

\* x > 0 (false for NaN)
NumGtZero(operand) == \E x \in {operand} : ~isNaN(x) /\ x[1] > 0

RECURSIVE Pow10(_)
Pow10(k) == IF k = 0 THEN 1 ELSE 10 * Pow10(k - 1)

(***************************************************************************)
(* Natural numbers of any size: the limbs of a number in base 2^15, least  *)
(* significant first, without leading zero limbs; <<>> is zero.            *)
(***************************************************************************)
LimbBits == 15

Base == 32768

RECURSIVE Pow2(_)
Pow2(k) == IF k = 0 THEN 1 ELSE 2 * Pow2(k - 1)

RECURSIVE BigNorm(_)
BigNorm(a) ==
  ValueOf({IF x = <<>> \/ x[Len(x)] # 0 THEN x ELSE BigNorm(SubSeq(x, 1, Len(x) - 1)) :
           x \in {a}})

RECURSIVE BigOfNat(_)
BigOfNat(n) ==
  ValueOf({IF k = 0 THEN <<>> ELSE <<k % Base>> \o BigOfNat(k \div Base) : k \in {n}})

Limb(a, i) == IF i <= Len(a) THEN a[i] ELSE 0

RECURSIVE BigAddFrom(_, _, _, _)
BigAddFrom(a, b, i, carry) ==
  IF i > Len(a) /\ i > Len(b) THEN (IF carry = 0 THEN <<>> ELSE <<carry>>)
  ELSE ValueOf({<<s % Base>> \o BigAddFrom(a, b, j, s \div Base) :
                s \in {Limb(a, i) + Limb(b, i) + carry}, j \in {i + 1}})

\* a + b
BigAdd(a, b) == ValueOf({BigAddFrom(x, y, 1, 0) : x \in {a}, y \in {b}})

RECURSIVE BigSubFrom(_, _, _, _)
BigSubFrom(a, b, i, borrow) ==
  IF i > Len(a) THEN <<>>
  ELSE ValueOf({<<(s + Base) % Base>> \o BigSubFrom(a, b, j, IF s < 0 THEN 1 ELSE 0) :
                s \in {a[i] - Limb(b, i) - borrow}, j \in {i + 1}})

\* a - b, for a >= b
BigSub(a, b) == ValueOf({BigNorm(BigSubFrom(x, y, 1, 0)) : x \in {a}, y \in {b}})

RECURSIVE BigCmpFrom(_, _, _)
BigCmpFrom(a, b, i) ==
  IF i = 0 THEN 0
  ELSE IF a[i] < b[i] THEN 0 - 1
  ELSE IF a[i] > b[i] THEN 1
  ELSE BigCmpFrom(a, b, i - 1)

\* the sign of a - b
BigCmp(a, b) ==
  ValueOf({IF Len(x) < Len(y) THEN 0 - 1
           ELSE IF Len(x) > Len(y) THEN 1
           ELSE BigCmpFrom(x, y, Len(x)) :
           x \in {a}, y \in {b}})

RECURSIVE BigMulSmallFrom(_, _, _, _)
BigMulSmallFrom(a, k, i, carry) ==
  IF i > Len(a) THEN (IF carry = 0 THEN <<>> ELSE <<carry>>)
  ELSE ValueOf({<<s % Base>> \o BigMulSmallFrom(a, k, j, s \div Base) :
                s \in {a[i] * k + carry}, j \in {i + 1}})

\* a * k, for 0 <= k < 2^15
BigMulSmall(a, k) ==
  ValueOf({IF y = 0 THEN <<>> ELSE BigMulSmallFrom(x, y, 1, 0) : x \in {a}, y \in {k}})

RECURSIVE BigMulFrom(_, _, _)
BigMulFrom(a, b, i) ==
  IF i > Len(b) THEN <<>>
  ELSE ValueOf({BigAdd(BigMulSmall(a, b[i]), <<0>> \o rest) :
                rest \in {BigMulFrom(a, b, i + 1)}})

\* a * b
BigMul(a, b) == ValueOf({BigNorm(BigMulFrom(x, y, 1)) : x \in {a}, y \in {b}})

\* the number of bits of a: 0 for zero
BigBitLen(a) ==
  ValueOf({IF x = <<>> THEN 0
           ELSE LimbBits * (Len(x) - 1)
                + (CHOOSE k \in 1..LimbBits : Pow2(k - 1) <= x[Len(x)] /\ x[Len(x)] < Pow2(k)) :
           x \in {a}})

\* a * 2^k
BigShl(a, k) ==
  ValueOf({IF x = <<>> THEN <<>>
           ELSE [i \in 1..(n \div LimbBits) |-> 0] \o BigMulSmall(x, Pow2(n % LimbBits)) :
           x \in {a}, n \in {k}})

RECURSIVE BigShrSmallFrom(_, _, _)
BigShrSmallFrom(a, k, i) ==
  IF i > Len(a) THEN <<>>
  ELSE <<(a[i] \div Pow2(k)) + (Limb(a, i + 1) % Pow2(k)) * Pow2(LimbBits - k)>>
       \o BigShrSmallFrom(a, k, i + 1)

\* a \div 2^k
BigShr(a, k) ==
  ValueOf({IF n \div LimbBits >= Len(x) THEN <<>>
           ELSE BigNorm(BigShrSmallFrom(SubSeq(x, n \div LimbBits + 1, Len(x)),
                                        n % LimbBits, 1)) :
           x \in {a}, n \in {k}})

\* bit i of a (bit 0 is the least significant)
BigBit(a, i) == (Limb(a, i \div LimbBits + 1) \div Pow2(i % LimbBits)) % 2

BigIsOdd(a) == a # <<>> /\ a[1] % 2 = 1

\* the long division of n by d over the bits i down to lo of n: q is the
\* quotient so far (below 2^15 at the end) and r the remainder so far
RECURSIVE BigDivBits(_, _, _, _, _, _)
BigDivBits(n, d, i, lo, q, r) ==
  IF i < lo THEN <<q, r>>
  ELSE ValueOf({IF BigCmp(r2, d) >= 0
                THEN ValueOf({BigDivBits(n, d, j, lo, q1, r1) :
                              q1 \in {2 * q + 1}, r1 \in {BigSub(r2, d)}})
                ELSE ValueOf({BigDivBits(n, d, j, lo, q1, r2) : q1 \in {2 * q}}) :
                r2 \in {BigAdd(BigAdd(r, r), IF BigBit(n, i) = 1 THEN <<1>> ELSE <<>>)},
                j \in {i - 1}})

\* the limbs i down to 1 of the quotient, and the remainder
RECURSIVE BigDivLimbs(_, _, _, _)
BigDivLimbs(n, d, i, r) ==
  IF i = 0 THEN <<<<>>, r>>
  ELSE ValueOf({ValueOf({<<rest[1] \o <<qr[1]>>, rest[2]>> :
                         rest \in {BigDivLimbs(n, d, i - 1, qr[2])}}) :
                qr \in {BigDivBits(n, d, LimbBits * i - 1, LimbBits * (i - 1), 0, r)}})

\* the quotient and the remainder of n by the single limb k: the limbs i
\* down to 1 of the quotient, r the remainder so far
RECURSIVE BigDivSmallFrom(_, _, _, _)
BigDivSmallFrom(n, k, i, r) ==
  IF i = 0 THEN <<<<>>, IF r = 0 THEN <<>> ELSE <<r>>>>
  ELSE ValueOf({ValueOf({<<rest[1] \o <<cur \div k>>, rest[2]>> :
                         rest \in {BigDivSmallFrom(n, k, i - 1, cur % k)}}) :
                cur \in {r * Base + n[i]}})

\* d is 2^k for some k
BigIsPow2(d) ==
  /\ d # <<>>
  /\ \A i \in 1..(Len(d) - 1) : d[i] = 0
  /\ \E k \in 0..(LimbBits - 1) : d[Len(d)] = Pow2(k)

\* the quotient and the remainder of n by d > 0, for a quotient of at most
\* limbs limbs
BigDivMod(n, d, limbs) ==
  ValueOf({
    IF Len(y) = 1
    THEN ValueOf({<<BigNorm(qr[1]), qr[2]>> : qr \in {BigDivSmallFrom(x, y[1], Len(x), 0)}})
    ELSE IF BigIsPow2(y)
    THEN ValueOf({<<q, BigSub(x, BigShl(q, BigBitLen(y) - 1))>> :
                  q \in {BigShr(x, BigBitLen(y) - 1)}})
    ELSE ValueOf({<<BigNorm(qr[1]), qr[2]>> :
                  qr \in {BigDivLimbs(x, y, k, BigShr(x, LimbBits * k))}}) :
    x \in {n}, y \in {d}, k \in {limbs}})

\* the number of zero limbs at the low end of a # <<>>
BigLowZeros(a) == CHOOSE k \in 0..(Len(a) - 1) : a[k + 1] # 0 /\ \A i \in 1..k : a[i] = 0

(***************************************************************************)
(* IEEE 754 binary64, the Number type: a finite value is (-1)^neg * mant * *)
(* 2^exp with 2^52 <= mant < 2^53, or zero (mant = <<>>, exp = 0; the sign *)
(* of zero is dropped: no comparison made by the program tells -0 from 0). *)
(* Every operation returns the representable value nearest to the exact    *)
(* result, ties to the even mantissa.  Results below 2^-1022 in magnitude  *)
(* (subnormal) are not reached by inputs of the lengths considered.        *)
(***************************************************************************)
Finite64(neg, mant, exp) == [cls |-> "finite", neg |-> neg, mant |-> mant, exp |-> exp]

Zero64 == Finite64(FALSE, <<>>, 0)

NaN64 == [cls |-> "nan", neg |-> FALSE, mant |-> <<>>, exp |-> 0]

Infinity64(neg) == [cls |-> "inf", neg |-> neg, mant |-> <<>>, exp |-> 0]

MaxExp64 == 971

\* the binary64 value nearest to (-1)^neg * (n / d) * 2^e0, for d > 0
RoundToBinary64(neg, n, d, e0) ==
  ValueOf({
    IF N = <<>> THEN Zero64
    ELSE ValueOf({
      ValueOf({
        ValueOf({
          ValueOf({
            ValueOf({
              IF e > MaxExp64 THEN Infinity64(neg) ELSE Finite64(neg, m, e) :
              m \in {IF BigBitLen(q) = 54 THEN BigShr(q, 1) ELSE q},
              e \in {IF BigBitLen(q) = 54 THEN e0 - s + 1 ELSE e0 - s}}) :
            q \in {IF c > 0 \/ (c = 0 /\ BigIsOdd(qr[1])) THEN BigAdd(qr[1], <<1>>)
                   ELSE qr[1]}}) :
          c \in {BigCmp(BigAdd(qr[2], qr[2]), D1)}}) :
        qr \in {BigDivMod(N1, D1, 4)}}) :
      N1 \in {IF s >= 0 THEN BigShl(N, s) ELSE N},
      D1 \in {IF s >= 0 THEN D ELSE BigShl(D, 0 - s)}}) :
    N \in {n}, D \in {d},
    s \in {52 - ValueOf({IF (IF k >= 0 THEN BigCmp(n, BigShl(d, k))
                             ELSE BigCmp(BigShl(n, 0 - k), d)) >= 0
                         THEN k ELSE k - 1 :
                         k \in {BigBitLen(n) - BigBitLen(d)}})}})

Hundred64 == Finite64(FALSE, <<0, 0, 0, 200>>, 0 - 46)

\* the Number nearest to the rational x = <<n, d>>
ToBinary64(x) ==
  ValueOf({IF isNaN(r) THEN NaN64
           ELSE IF ~IsFinite(r) THEN Infinity64(r[1] < 0)
           ELSE RoundToBinary64(r[1] < 0, BigOfNat(Abs(r[1])), BigOfNat(r[2]), 0) :
           r \in {x}})

IsZero64(x) == x.cls = "finite" /\ x.mant = <<>>

\* x * y
Mul64(left, right) ==
  ValueOf({IF x.cls = "nan" \/ y.cls = "nan" THEN NaN64
           ELSE IF x.cls = "inf" \/ y.cls = "inf"
                THEN IF IsZero64(x) \/ IsZero64(y) THEN NaN64
                     ELSE Infinity64(x.neg # y.neg)
           ELSE RoundToBinary64(x.neg # y.neg, BigMul(x.mant, y.mant), <<1>>, x.exp + y.exp) :
           x \in {left}, y \in {right}})

\* x / y
Div64(left, right) ==
  ValueOf({IF x.cls = "nan" \/ y.cls = "nan" THEN NaN64
           ELSE IF x.cls = "inf"
                THEN IF y.cls = "inf" THEN NaN64 ELSE Infinity64(x.neg # y.neg)
           ELSE IF y.cls = "inf" THEN Zero64
           ELSE IF IsZero64(y)
                THEN IF IsZero64(x) THEN NaN64 ELSE Infinity64(x.neg # y.neg)
           ELSE ValueOf({RoundToBinary64(x.neg # y.neg, x.mant,
                                         SubSeq(y.mant, z + 1, Len(y.mant)),
                                         x.exp - y.exp - LimbBits * z) :
                         z \in {BigLowZeros(y.mant)}}) :
           x \in {left}, y \in {right}})

\* x + y
Add64(left, right) ==
  ValueOf({
    IF x.cls = "nan" \/ y.cls = "nan" THEN NaN64
    ELSE IF x.cls = "inf"
         THEN IF y.cls = "inf" /\ x.neg # y.neg THEN NaN64 ELSE x
    ELSE IF y.cls = "inf" THEN y
    ELSE IF IsZero64(x) THEN y
    ELSE IF IsZero64(y) THEN x
    ELSE ValueOf({
           ValueOf({
             IF x.neg = y.neg THEN RoundToBinary64(x.neg, BigAdd(X, Y), <<1>>, e)
             ELSE IF BigCmp(X, Y) >= 0 THEN RoundToBinary64(x.neg, BigSub(X, Y), <<1>>, e)
             ELSE RoundToBinary64(y.neg, BigSub(Y, X), <<1>>, e) :
             X \in {BigShl(x.mant, x.exp - e)}, Y \in {BigShl(y.mant, y.exp - e)}}) :
           e \in {IF x.exp < y.exp THEN x.exp ELSE y.exp}}) :
    x \in {left}, y \in {right}})

\* -x
Neg64(operand) ==
  ValueOf({IF x.cls = "nan" \/ IsZero64(x) THEN x ELSE [x EXCEPT !.neg = ~x.neg] :
           x \in {operand}})

\* x - y
Sub64(x, y) == Add64(x, Neg64(y))

\* x <= 0 (false for NaN)
LeqZero64(operand) ==
  \E x \in {operand} : x.cls # "nan" /\ (IsZero64(x) \/ x.neg)

\* Math.round(x): floor(x + 1/2), computed exactly
MathRound64(operand) ==
  ValueOf({
    IF x.cls # "finite" \/ IsZero64(x) \/ x.exp >= 0 THEN x
    ELSE ValueOf({
           ValueOf({
             IF ~x.neg
             THEN RoundToBinary64(FALSE, BigShr(BigAdd(twice, half), k + 1), <<1>>, 0)
             ELSE IF BigCmp(twice, half) <= 0 THEN Zero64
             ELSE RoundToBinary64(TRUE,
                    BigShr(BigAdd(BigSub(twice, half), BigSub(BigShl(<<1>>, k + 1), <<1>>)),
                           k + 1),
                    <<1>>, 0) :
             twice \in {BigShl(x.mant, 1)}, half \in {BigShl(<<1>>, k)}}) :
           k \in {0 - x.exp}}) :
    x \in {operand}})

(***************************************************************************)
(* Characters and strings                                                  *)
(***************************************************************************)
Digits == {"0", "1", "2", "3", "4", "5", "6", "7", "8", "9"}

DigitVal(c) ==
  CASE c = "0" -> 0 [] c = "1" -> 1 [] c = "2" -> 2 [] c = "3" -> 3
    [] c = "4" -> 4 [] c = "5" -> 5 [] c = "6" -> 6 [] c = "7" -> 7
    [] c = "8" -> 8 [] c = "9" -> 9

\* \s
SpaceChars == {" ", "\t", "\n", "\r"}

IsSpace(c) == c \in SpaceChars

\* [0-9+\-*/.]
MathChars == Digits \cup {"+", "-", "*", "/", "."}

IsMathChar(c) == c \in MathChars

\* [0-9+\-*/.\s]
ArithChars == MathChars \cup SpaceChars

IsArithChar(c) == c \in ArithChars

\* . (any character but a line terminator)
IsDotChar(c) == c \notin {"\n", "\r"}

MaxOf(S) == ValueOf({CHOOSE m \in T : \A k \in T : k <= m : T \in {S}})

\* the length of the longest run of characters of the class Chars that
\* starts right after position p of s
RunAfter(s, p, Chars) ==
  ValueOf({MaxOf({k \in 0..(Len(str) - from) : \A t \in 1..k : str[from + t] \in Chars}) :
           str \in {s}, from \in {p}})

\* a trim that is skipped
Trim_Skipped(s) == s

\* String.prototype.trim
Trim(s) ==
  ValueOf({IF \A t \in 1..Len(str) : IsSpace(str[t]) THEN <<>>
           ELSE SubSeq(str,
                       CHOOSE i \in 1..Len(str) :
                         ~IsSpace(str[i]) /\ \A t \in 1..(i - 1) : IsSpace(str[t]),
                       CHOOSE i \in 1..Len(str) :
                         ~IsSpace(str[i]) /\ \A t \in (i + 1)..Len(str) : IsSpace(str[t])) :
           str \in {s}})

\* s.replace(/\s/g, '')
RemoveSpaces(s) == SelectSeq(s, LAMBDA c : ~IsSpace(c))

\* s.split(/([seps])/): the pieces between separators with the separators
\* themselves in between, so the result has odd length
RECURSIVE SplitKeep(_, _, _)
SplitKeep(s, Seps, cur) ==
  ValueOf({IF str = <<>> THEN <<piece>>
           ELSE IF Head(str) \in Seps
                THEN <<piece, <<Head(str)>>>> \o SplitKeep(Tail(str), Seps, <<>>)
           ELSE SplitKeep(Tail(str), Seps, Append(piece, Head(str))) :
           str \in {s}, piece \in {cur}})

RECURSIVE DigitsValue(_)
DigitsValue(s) ==
  ValueOf({IF str = <<>> THEN 0
           ELSE 10 * DigitsValue(SubSeq(str, 1, Len(str) - 1)) + DigitVal(str[Len(str)]) :
           str \in {s}})

\* parseFloat: leading white space is skipped, then the longest prefix that
\* is an optionally signed decimal literal is converted; NaN if there is none
\* (exponents and the literal "Infinity" are outside the alphabet in use)
parseFloat(string) ==
  ValueOf({
    LET sg  == IF w < Len(str) /\ str[w + 1] \in {"+", "-"} THEN 1 ELSE 0
        neg == sg = 1 /\ str[w + 1] = "-"
        p   == w + sg
    IN  ValueOf({
          LET dot == p + a < Len(str) /\ str[p + a + 1] = "."
          IN  ValueOf({
                IF a = 0 /\ b = 0 THEN NaN
                ELSE ValueOf({IF neg THEN NumNeg(v) ELSE v :
                              v \in {Rat(DigitsValue(SubSeq(str, p + 1, p + a)) * Pow10(b)
                                           + DigitsValue(SubSeq(str, p + a + 2, p + a + 1 + b)),
                                         Pow10(b))}}) :
                b \in {IF dot THEN RunAfter(str, p + a + 1, Digits) ELSE 0}}) :
          a \in {RunAfter(str, w + sg, Digits)}}) :
    str \in {string}, w \in {RunAfter(string, 0, SpaceChars)}})

DigitChar(k) ==
  CASE k = 0 -> "0" [] k = 1 -> "1" [] k = 2 -> "2" [] k = 3 -> "3"
    [] k = 4 -> "4" [] k = 5 -> "5" [] k = 6 -> "6" [] k = 7 -> "7"
    [] k = 8 -> "8" [] k = 9 -> "9"

\* the decimal digits of the natural number k, at least width of them
RECURSIVE NatDigits(_, _)
NatDigits(k, width) ==
  IF k < 10 /\ width <= 1 THEN <<DigitChar(k)>>
  ELSE Append(NatDigits(k \div 10, width - 1), DigitChar(k % 10))

\* Number.prototype.toString for NaN and for the finite values whose decimal
\* expansion terminates, which is what every parsed decimal literal is
NumToString(x) ==
  IF isNaN(x) THEN <<"N", "a", "N">>
  ELSE LET n    == Abs(x[1])
           d    == x[2]
           k    == CHOOSE e \in 0..9 :
                     Pow10(e) % d = 0 /\ \A f \in 0..(e - 1) : Pow10(f) % d # 0
           ip   == NatDigits(n \div d, 1)
           fp   == IF k = 0 THEN <<>>
                   ELSE <<".">> \o NatDigits((n % d) * (Pow10(k) \div d), k)
       IN  (IF x[1] < 0 THEN <<"-">> ELSE <<>>) \o ip \o fp

(***************************************************************************)
(* The arithmetic evaluator                                                *)
(***************************************************************************)
\* JavaScript null
Null == <<>>

\* the loop of evaluateMultiplyDivide without its check of a zero divisor
RECURSIVE MulDivLoop_NoZeroCheck(_, _, _)
MulDivLoop_NoZeroCheck(tokens, i, result) ==
  IF i > Len(tokens) THEN result
  ELSE ValueOf({
         IF value.cls = "nan" THEN Null
         ELSE IF op = <<"*">>
              THEN ValueOf({MulDivLoop_NoZeroCheck(tokens, i + 2, r) : r \in {Mul64(result, value)}})
         ELSE IF op = <<"/">>
              THEN ValueOf({MulDivLoop_NoZeroCheck(tokens, i + 2, r) : r \in {Div64(result, value)}})
         ELSE MulDivLoop_NoZeroCheck(tokens, i + 2, result) :
         op \in {tokens[i]}, value \in {ToBinary64(parseFloat(tokens[i + 1]))}})

\* the loop of evaluateMultiplyDivide from index i (1-based) on
RECURSIVE MulDivLoop(_, _, _)
MulDivLoop(tokens, i, result) ==
  IF i > Len(tokens) THEN result
  ELSE ValueOf({
         IF value.cls = "nan" THEN Null
         ELSE IF op = <<"*">>
              THEN ValueOf({MulDivLoop(tokens, i + 2, r) : r \in {Mul64(result, value)}})
         ELSE IF op = <<"/">>
              THEN IF IsZero64(value) THEN Null
                   ELSE ValueOf({MulDivLoop(tokens, i + 2, r) : r \in {Div64(result, value)}})
         ELSE MulDivLoop(tokens, i + 2, result) :
         op \in {tokens[i]}, value \in {ToBinary64(parseFloat(tokens[i + 1]))}})

evaluateMultiplyDivide(expression) ==
  ValueOf({ValueOf({IF result.cls = "nan" THEN Null ELSE MulDivLoop(tokens, 2, result) :
                    result \in {ToBinary64(parseFloat(tokens[1]))}}) :
           tokens \in {SplitKeep(expression, {"*", "/"}, <<>>)}})

\* the loop of evaluateMath folding from the right: a - b - c as a - (b - c)
RECURSIVE AddSubLoop_RightAssoc(_, _, _, _)
AddSubLoop_RightAssoc(tokens, i, result, currentOp) ==
  IF i > Len(tokens) THEN result
  ELSE IF tokens[i] = <<"+">> \/ tokens[i] = <<"-">>
       THEN AddSubLoop_RightAssoc(tokens, i + 1, result, tokens[i][1])
  ELSE ValueOf({
         IF value = Null \/ rest = Null THEN Null
         ELSE IF currentOp = "+" THEN Add64(result, Add64(value, rest))
         ELSE Sub64(result, Add64(value, rest)) :
         value \in {evaluateMultiplyDivide(tokens[i])},
         rest \in {AddSubLoop_RightAssoc(tokens, i + 1, Zero64, "+")}})

\* the loop of evaluateMath over the tokens from index i (1-based) on
RECURSIVE AddSubLoop(_, _, _, _)
AddSubLoop(tokens, i, result, currentOp) ==
  IF i > Len(tokens) THEN result
  ELSE IF tokens[i] = <<"+">> \/ tokens[i] = <<"-">>
       THEN AddSubLoop(tokens, i + 1, result, tokens[i][1])
  ELSE ValueOf({
         IF value = Null THEN Null
         ELSE IF currentOp = "+"
              THEN ValueOf({AddSubLoop(tokens, i + 1, r, "+") : r \in {Add64(result, value)}})
         ELSE ValueOf({AddSubLoop(tokens, i + 1, r, "-") : r \in {Sub64(result, value)}}) :
         value \in {evaluateMultiplyDivide(tokens[i])}})

\* Math.round(result * 100) / 100
RoundToCents(result) == Div64(MathRound64(Mul64(result, Hundred64)), Hundred64)

evaluateMath(expression) ==
  ValueOf({
    IF ~(Len(cleaned) >= 1 /\ \A t \in 1..Len(cleaned) : IsMathChar(cleaned[t]))
    THEN Null
    ELSE ValueOf({ValueOf({IF result = Null THEN Null ELSE RoundToCents(result) :
                           result \in {AddSubLoop(tokens, 1, Zero64, "+")}}) :
                  tokens \in {SplitKeep(cleaned, {"+", "-"}, <<>>)}}) :
    cleaned \in {RemoveSpaces(expression)}})

(***************************************************************************)
(* The three patterns of parseLineItem.  A match is <<group 1, group 2>>,  *)
(* no match is NoMatch.  Greedy quantifiers with backtracking: the match   *)
(* found is the one that is largest in the earliest quantifier, then in    *)
(* the next, and so on.                                                    *)
(***************************************************************************)
NoMatch == <<>>

\* (.+)$ at position p + 1: the start of the rest, which must be non-empty
\* and free of line terminators
RestIsTitle(s, p) == p < Len(s) /\ \A t \in (p + 1)..Len(s) : IsDotChar(s[t])

\* \s*-\s*(.+)$ right after position p: the position before group 2, or -1
SeparatorAfter(s, p) ==
  ValueOf({
    IF ~(hy <= Len(s) /\ s[hy] = "-") THEN 0 - 1
    ELSE ValueOf({IF Ms = {} THEN 0 - 1 ELSE hy + MaxOf(Ms) :
                  Ms \in {{m \in 0..RunAfter(s, hy, SpaceChars) : RestIsTitle(s, hy + m)}}}) :
    hy \in {p + RunAfter(s, p, SpaceChars) + 1}})

\* the first pattern with a lazy group 1: the first hyphen separates
dollarPattern_Lazy(s) ==
  LET a == IF Len(s) >= 1 /\ s[1] = "$" THEN 1 ELSE 0
  IN  ValueOf({
        IF Cands = {} THEN NoMatch
        ELSE ValueOf({
               ValueOf({<<SubSeq(s, a + i + 1, a + i + j),
                          SubSeq(s, SeparatorAfter(s, a + i + j) + 1, Len(s))>> :
                        j \in {0 - MaxOf({0 - c[2] : c \in {e \in Cands : e[1] = i}})}}) :
               i \in {MaxOf({c[1] : c \in Cands})}}) :
        Cands \in {{c \in (0..RunAfter(s, a, SpaceChars)) \X (1..Len(s)) :
                      /\ c[2] <= RunAfter(s, a + c[1], ArithChars)
                      /\ SeparatorAfter(s, a + c[1] + c[2]) >= 0}}})

\* /^\$?\s*([0-9+\-*/.\s]+)\s*-\s*(.+)$/
dollarPattern(s) ==
  LET a == IF Len(s) >= 1 /\ s[1] = "$" THEN 1 ELSE 0
  IN  ValueOf({
        IF Cands = {} THEN NoMatch
        ELSE ValueOf({
               ValueOf({<<SubSeq(s, a + i + 1, a + i + j),
                          SubSeq(s, SeparatorAfter(s, a + i + j) + 1, Len(s))>> :
                        j \in {MaxOf({c[2] : c \in {e \in Cands : e[1] = i}})}}) :
               i \in {MaxOf({c[1] : c \in Cands})}}) :
        Cands \in {{c \in (0..RunAfter(s, a, SpaceChars)) \X (1..Len(s)) :
                      /\ c[2] <= RunAfter(s, a + c[1], ArithChars)
                      /\ SeparatorAfter(s, a + c[1] + c[2]) >= 0}}})

\* the second pattern with a lazy group 1: the first white space separates
numberPattern_Lazy(s) ==
  ValueOf({
    IF Cands = {} THEN NoMatch
    ELSE ValueOf({
           ValueOf({<<SubSeq(s, 1, j), SubSeq(s, j + k + 1, Len(s))>> :
                    k \in {MaxOf({c[2] : c \in {e \in Cands : e[1] = j}})}}) :
           j \in {0 - MaxOf({0 - c[1] : c \in Cands})}}) :
    Cands \in {{c \in (1..RunAfter(s, 0, ArithChars)) \X (1..Len(s)) :
                  /\ c[2] <= RunAfter(s, c[1], SpaceChars)
                  /\ RestIsTitle(s, c[1] + c[2])}}})

\* /^([0-9+\-*/.\s]+)\s+(.+)$/
numberPattern(s) ==
  ValueOf({
    IF Cands = {} THEN NoMatch
    ELSE ValueOf({
           ValueOf({<<SubSeq(s, 1, j), SubSeq(s, j + k + 1, Len(s))>> :
                    k \in {MaxOf({c[2] : c \in {e \in Cands : e[1] = j}})}}) :
           j \in {MaxOf({c[1] : c \in Cands})}}) :
    Cands \in {{c \in (1..RunAfter(s, 0, ArithChars)) \X (1..Len(s)) :
                  /\ c[2] <= RunAfter(s, c[1], SpaceChars)
                  /\ RestIsTitle(s, c[1] + c[2])}}})

\* /^([0-9+\-*/.\s]+)(.*)$/
simplePattern(s) ==
  ValueOf({IF Js = {} THEN NoMatch
           ELSE ValueOf({<<SubSeq(s, 1, j), SubSeq(s, j + 1, Len(s))>> : j \in {MaxOf(Js)}}) :
           Js \in {{j \in 1..RunAfter(s, 0, ArithChars) :
                      \A t \in (j + 1)..Len(s) : IsDotChar(s[t])}}})

(***************************************************************************)
(* parseLineItem                                                           *)
(***************************************************************************)
ErrEmptyInput == "Input cannot be empty"

ErrEmptyTitle == "Title cannot be empty"

ErrInvalidAmount == "Invalid amount"

ErrCouldNotParse == "Could not parse input. Try format: $190 - description"

Failure(msg) == [error |-> msg]

Success(amount, title) == [amount |-> amount, title |-> title]

\* parseLineItem has not been applied yet
Pending == [pending |-> TRUE]

\* the body shared by the first two patterns rejecting only amount < 0
ParseAmountTitle_ZeroAllowed(m) ==
  ValueOf({
    IF title = <<>> THEN Failure(ErrEmptyTitle)
    ELSE ValueOf({IF amount = Null \/ (LeqZero64(amount) /\ ~IsZero64(amount))
                  THEN Failure(ErrInvalidAmount)
                  ELSE Success(amount, title) :
                  amount \in {evaluateMath(amountStr)}}) :
    amountStr \in {Trim(m[1])}, title \in {Trim(m[2])}})

\* the body shared by the first two patterns once one of them has matched
ParseAmountTitle(m) ==
  ValueOf({
    IF title = <<>> THEN Failure(ErrEmptyTitle)
    ELSE ValueOf({IF amount = Null \/ LeqZero64(amount) THEN Failure(ErrInvalidAmount)
                  ELSE Success(amount, title) :
                  amount \in {evaluateMath(amountStr)}}) :
    amountStr \in {Trim(m[1])}, title \in {Trim(m[2])}})

\* the body of the third pattern with a message of its own for a bad amount
ParseSimple_OwnMessage(m) ==
  ValueOf({
    ValueOf({IF amount = Null \/ LeqZero64(amount) THEN Failure(ErrCouldNotParse)
             ELSE Success(amount, title) :
             amount \in {evaluateMath(amountStr)}}) :
    amountStr \in {Trim(m[1])},
    title \in {IF Trim(m[2]) = <<>> THEN <<"E", "x", "p", "e", "n", "s", "e">>
               ELSE Trim(m[2])}})

\* the body of the third pattern without the default title
ParseSimple_NoDefaultTitle(m) ==
  ValueOf({
    ValueOf({IF amount = Null \/ LeqZero64(amount) THEN Failure(ErrInvalidAmount)
             ELSE Success(amount, title) :
             amount \in {evaluateMath(amountStr)}}) :
    amountStr \in {Trim(m[1])}, title \in {Trim(m[2])}})

\* the body of the third pattern once it has matched
ParseSimple(m) ==
  ValueOf({
    ValueOf({IF amount = Null \/ LeqZero64(amount) THEN Failure(ErrInvalidAmount)
             ELSE Success(amount, title) :
             amount \in {evaluateMath(amountStr)}}) :
    amountStr \in {Trim(m[1])},
    title \in {IF Trim(m[2]) = <<>> THEN <<"E", "x", "p", "e", "n", "s", "e">>
               ELSE Trim(m[2])}})

\* parseLineItem going on to the next pattern when the amount is invalid
parseLineItem_FallThrough(input) ==
  ValueOf({
    IF trimmed = <<>> THEN Failure(ErrEmptyInput)
    ELSE ValueOf({
           IF dollarMatch # NoMatch /\ ParseAmountTitle(dollarMatch) # Failure(ErrInvalidAmount)
           THEN ParseAmountTitle(dollarMatch)
           ELSE IF numberMatch # NoMatch /\ ParseAmountTitle(numberMatch) # Failure(ErrInvalidAmount)
                THEN ParseAmountTitle(numberMatch)
           ELSE IF simpleMatch # NoMatch THEN ParseSimple(simpleMatch)
           ELSE Failure(ErrCouldNotParse) :
           dollarMatch \in {dollarPattern(trimmed)},
           numberMatch \in {numberPattern(trimmed)},
           simpleMatch \in {simplePattern(trimmed)}}) :
    trimmed \in {Trim(input)}})

parseLineItem(input) ==
  ValueOf({
    IF trimmed = <<>> THEN Failure(ErrEmptyInput)
    ELSE ValueOf({
           IF dollarMatch # NoMatch THEN ParseAmountTitle(dollarMatch)
           ELSE ValueOf({
                  IF numberMatch # NoMatch THEN ParseAmountTitle(numberMatch)
                  ELSE ValueOf({IF simpleMatch # NoMatch THEN ParseSimple(simpleMatch)
                                ELSE Failure(ErrCouldNotParse) :
                                simpleMatch \in {simplePattern(trimmed)}}) :
                  numberMatch \in {numberPattern(trimmed)}}) :
           dollarMatch \in {dollarPattern(trimmed)}}) :
    trimmed \in {Trim(input)}})

(***************************************************************************)
(* State                                                                   *)
(***************************************************************************)
VARIABLES
  qeInput,          \* the text handed to parseLineItem
  qeResult,         \* what parseLineItem returned for it, or Pending
  emResult,         \* what evaluateMath returned for it, or Pending
  db_flips,         \* table flips: rows in insertion order
  db_line_items,    \* table line_items: rows in insertion order
  seq_flips,        \* AUTOINCREMENT counter of flips
  seq_line_items,   \* AUTOINCREMENT counter of line_items
  screen,           \* the focused route: "Home" or "FlipSheet"
  flipId,           \* FlipSheet: route.params.flipId, NoFlipId if undefined
  flip,             \* FlipSheet state: the loaded flip or Null
  lineItems,        \* FlipSheet state: the loaded line items
  totals,           \* FlipSheet state: the loaded totals
  isEditing,        \* FlipSheet state
  buyPrice,         \* FlipSheet form text
  sellPrice,        \* FlipSheet form text
  whatIfMode,       \* FlipSheet state
  whatIfSellPrice,  \* FlipSheet form text
  ctCall,           \* the last call of the context's computeTotals and its outcome
  today,            \* what new Date().toLocaleDateString() gives at the moment
  exported,         \* Settings: the last export, its data and its text, or Pending
  exportedBefore,   \* Settings: the export before that one, or Pending
  selectedTab,      \* Home state: "open" or "sold"
  isSelectionMode,  \* Home state
  selectedFlips,    \* Home state: the ids of the selected flips, in the order
                    \* they were added to the Set
  lastCall,         \* Home and context: the operation that ran last
  flipTotals,       \* Home state: the totals loaded for the listed flips, by flip id
  inFlight          \* FlipSheet: the async handlers that have started and not
                    \* yet finished, each with its position and its locals

parserVars == <<qeInput, qeResult, emResult>>

storeVars == <<db_flips, db_line_items, seq_flips, seq_line_items>>

sheetVars ==
  <<flipId, flip, lineItems, totals, isEditing, buyPrice, sellPrice,
    whatIfMode, whatIfSellPrice>>

exportVars == <<today, exported, exportedBefore>>

homeVars == <<selectedTab, isSelectionMode, selectedFlips, lastCall>>

asyncVars == <<flipTotals, inFlight>>

vars ==
  <<parserVars, storeVars, screen, sheetVars, ctCall, exportVars, homeVars, asyncVars>>

(***************************************************************************)
(* The store (db/sqlite.ts over db/schema.ts)                              *)
(***************************************************************************)
\* what a JavaScript || treats as false, for a number or null
Falsy(x) == x = Null \/ x = Num(0) \/ isNaN(x)

\* no PRAGMA foreign_keys = ON is ever executed on the connection, so the
\* REFERENCES ... ON DELETE CASCADE clause of line_items is not enforced
ForeignKeysOn == FALSE

getFlipById(F, id) ==
  LET rows == SelectSeq(F, LAMBDA r : r.id = id)
  IN  IF rows = <<>> THEN Null ELSE rows[1]

\* the SELECT without its WHERE flip_id = ?
getLineItemsByFlip_AllRows(L, id) == L

getLineItemsByFlip(L, id) == SelectSeq(L, LAMBDA r : r.flip_id = id)

\* lineItems.reduce((sum, item) => sum + item.amount, 0)
RECURSIVE SumAmounts(_)
SumAmounts(items) ==
  IF items = <<>> THEN Num(0)
  ELSE NumAdd(SumAmounts(SubSeq(items, 1, Len(items) - 1)), items[Len(items)].amount)

Thrown(msg) == [thrown |-> msg]

IsThrown(r) == "thrown" \in DOMAIN r

\* db.computeTotals: the totals, or the error it throws
computeTotals(F, L, id) ==
  LET f              == getFlipById(F, id)
      items          == getLineItemsByFlip(L, id)
      totalCost      == SumAmounts(items)
      sellP          == IF Falsy(f.sell_price) THEN Num(0) ELSE f.sell_price
      profit         == NumSub(sellP, NumAdd(f.buy_price, totalCost))
      investedAmount == NumAdd(f.buy_price, totalCost)
      roi            == IF NumGtZero(investedAmount) THEN NumDiv(profit, investedAmount)
                        ELSE Num(0)
  IN  IF f = Null THEN Thrown("Flip not found")
      ELSE [totalCost |-> totalCost, profit |-> profit, roi |-> roi]

\* a wrapper that catches the error and answers with zero totals
ctxComputeTotals_Swallowed(F, L, id) ==
  IF IsThrown(computeTotals(F, L, id))
  THEN [totalCost |-> Num(0), profit |-> Num(0), roi |-> Num(0)]
  ELSE computeTotals(F, L, id)

\* FlipsContext.computeTotals: return await db.computeTotals(flipId)
ctxComputeTotals(F, L, id) == computeTotals(F, L, id)

\* what a JavaScript || treats as false, for a string or null (the empty
\* string and null are both the empty sequence here)
FalsyText(s) == s = <<>>

\* a flip as the callers of createFlip describe it; fields left undefined
\* are Null
FlipInput(year, make, model, vin, miles, buy_price, sell_price) ==
  [year       |-> year,
   make       |-> make,
   model      |-> model,
   vin        |-> vin,
   miles      |-> miles,
   buy_price  |-> buy_price,
   sell_price |-> sell_price,
   sold_date  |-> Null]

\* db.createFlip: the table after the INSERT of row id; every optional
\* column is bound as value || null
createFlip(F, id, f) ==
  Append(F, [id         |-> id,
             year       |-> IF Falsy(f.year) THEN Null ELSE f.year,
             make       |-> IF FalsyText(f.make) THEN Null ELSE f.make,
             model      |-> IF FalsyText(f.model) THEN Null ELSE f.model,
             vin        |-> IF FalsyText(f.vin) THEN Null ELSE f.vin,
             miles      |-> IF Falsy(f.miles) THEN Null ELSE f.miles,
             buy_price  |-> f.buy_price,
             sell_price |-> IF Falsy(f.sell_price) THEN Null ELSE f.sell_price,
             sold_date  |-> IF FalsyText(f.sold_date) THEN Null ELSE f.sold_date])

\* an UPDATE that also writes sold_date, NULL when the partial flip has none
updateFlip_ClearsSoldDate(F, id, patch) ==
  [i \in 1..Len(F) |->
     IF F[i].id # id THEN F[i]
     ELSE [k \in DOMAIN F[i] |->
             IF k \in DOMAIN patch THEN patch[k]
             ELSE IF k = "sold_date" THEN Null ELSE F[i][k]]]

\* db.updateFlip: SET key = value for every entry of the partial flip
updateFlip(F, id, patch) ==
  [i \in 1..Len(F) |->
     IF F[i].id # id THEN F[i]
     ELSE [k \in DOMAIN F[i] |-> IF k \in DOMAIN patch THEN patch[k] ELSE F[i][k]]]

\* db.deleteFlip: DELETE FROM flips WHERE id = ?
deleteFlip(F, id) == SelectSeq(F, LAMBDA r : r.id # id)

\* the line_items table after that DELETE
deleteFlipCascade(L, id) ==
  IF ForeignKeysOn THEN SelectSeq(L, LAMBDA r : r.flip_id # id) ELSE L

\* db.addLineItem: the table after the INSERT of row id
addLineItem(L, id, item) ==
  Append(L, [id       |-> id,
             flip_id  |-> item.flip_id,
             title    |-> item.title,
             amount   |-> item.amount,
             category |-> item.category])

\* db.deleteLineItem
deleteLineItem(L, id) == SelectSeq(L, LAMBDA r : r.id # id)

\* FlipsContext.duplicateFlip, the copy loop: the items of the original
\* re-inserted under the new flip with fresh ids
RECURSIVE CopyLineItems(_, _, _, _)
CopyLineItems(L, items, newFlipId, lastId) ==
  IF items = <<>> THEN L
  ELSE CopyLineItems(
         addLineItem(L, lastId + 1,
                     [flip_id  |-> newFlipId,
                      title    |-> items[1].title,
                      amount   |-> items[1].amount,
                      category |-> items[1].category]),
         Tail(items), newFlipId, lastId + 1)

\* FlipsContext.duplicateFlip: the two tables after it, or the error it
\* throws; newFlipId and lastId + 1, ... are the ids the INSERTs hand out
duplicateFlip(F, L, id, newFlipId, lastId) ==
  LET originalFlip      == getFlipById(F, id)
      originalLineItems == getLineItemsByFlip(L, id)
  IN  IF originalFlip = Null THEN Thrown("Flip not found")
      ELSE [flips      |-> createFlip(F, newFlipId,
                                      FlipInput(originalFlip.year, originalFlip.make,
                                                originalFlip.model, originalFlip.vin,
                                                originalFlip.miles,
                                                originalFlip.buy_price, Null)),
            line_items |-> CopyLineItems(L, originalLineItems, newFlipId, lastId)]

InitStore ==
  /\ db_flips = <<>>
  /\ db_line_items = <<>>
  /\ seq_flips = 0
  /\ seq_line_items = 0

(***************************************************************************)
(* The flip sheet screen (screens/FlipSheet.tsx).  Each handler is taken   *)
(* as one step: the user lets a handler finish before starting the next.   *)
(***************************************************************************)
\* route.params.flipId undefined; every test of flipId is a truthiness test
NoFlipId == 0

ZeroTotals == [totalCost |-> Num(0), profit |-> Num(0), roi |-> Num(0)]

\* the useState initial values of a FlipSheet mounted with route parameter fid
MountState(fid) ==
  [flip            |-> Null,
   lineItems       |-> <<>>,
   totals          |-> ZeroTotals,
   isEditing       |-> (fid = NoFlipId),
   buyPrice        |-> <<>>,
   sellPrice       |-> <<>>,
   whatIfMode      |-> FALSE,
   whatIfSellPrice |-> <<>>]

SheetState ==
  [flip            |-> flip,
   lineItems       |-> lineItems,
   totals          |-> totals,
   isEditing       |-> isEditing,
   buyPrice        |-> buyPrice,
   sellPrice       |-> sellPrice,
   whatIfMode      |-> whatIfMode,
   whatIfSellPrice |-> whatIfSellPrice]

SetSheet(fid, st) ==
  /\ flipId' = fid
  /\ flip' = st.flip
  /\ lineItems' = st.lineItems
  /\ totals' = st.totals
  /\ isEditing' = st.isEditing
  /\ buyPrice' = st.buyPrice
  /\ sellPrice' = st.sellPrice
  /\ whatIfMode' = st.whatIfMode
  /\ whatIfSellPrice' = st.whatIfSellPrice

\* x?.toString() || ''
OptToString(x) == IF x = Null THEN <<>> ELSE NumToString(x)

\* loadFlip over the tables F and L: the sheet state it leaves
loadFlip(F, L, fid, st) ==
  IF fid = NoFlipId THEN st
  ELSE LET flipData   == getFlipById(F, fid)
           itemsData  == getLineItemsByFlip(L, fid)
           totalsData == ctxComputeTotals(F, L, fid)
       IN  IF IsThrown(totalsData) THEN st
           ELSE [(IF flipData = Null THEN st
                  ELSE [st EXCEPT !.flip = flipData,
                                  !.buyPrice = NumToString(flipData.buy_price),
                                  !.sellPrice = OptToString(flipData.sell_price),
                                  !.whatIfSellPrice = OptToString(flipData.sell_price)])
                 EXCEPT !.lineItems = itemsData, !.totals = totalsData]

\* what-if totals that leave the expenses out of the invested amount
computeWhatIfTotals_NoCosts(st) ==
  LET whatIfSellPriceNum ==
        IF st.whatIfSellPrice # <<>> THEN parseFloat(st.whatIfSellPrice)
        ELSE IF st.flip = Null \/ Falsy(st.flip.sell_price) THEN Num(0)
        ELSE st.flip.sell_price
      buyPriceNum ==
        IF st.flip # Null /\ ~Falsy(st.flip.buy_price) THEN st.flip.buy_price
        ELSE IF ~Falsy(parseFloat(st.buyPrice)) THEN parseFloat(st.buyPrice)
        ELSE Num(0)
      totalCost == st.totals.totalCost
      profit    == NumSub(whatIfSellPriceNum, buyPriceNum)
      roi       == IF NumGtZero(buyPriceNum) THEN NumDiv(profit, buyPriceNum) ELSE Num(0)
  IN  [totalCost |-> totalCost, profit |-> profit, roi |-> roi]

\* computeWhatIfTotals over the sheet state st
computeWhatIfTotals(st) ==
  LET whatIfSellPriceNum ==
        IF st.whatIfSellPrice # <<>> THEN parseFloat(st.whatIfSellPrice)
        ELSE IF st.flip = Null \/ Falsy(st.flip.sell_price) THEN Num(0)
        ELSE st.flip.sell_price
      buyPriceNum ==
        IF st.flip # Null /\ ~Falsy(st.flip.buy_price) THEN st.flip.buy_price
        ELSE IF ~Falsy(parseFloat(st.buyPrice)) THEN parseFloat(st.buyPrice)
        ELSE Num(0)
      totalCost      == st.totals.totalCost
      profit         == NumSub(whatIfSellPriceNum, NumAdd(buyPriceNum, totalCost))
      investedAmount == NumAdd(buyPriceNum, totalCost)
      roi            == IF NumGtZero(investedAmount) THEN NumDiv(profit, investedAmount)
                        ELSE Num(0)
  IN  [totalCost |-> totalCost, profit |-> profit, roi |-> roi]

\* const whatIfTotals = whatIfMode ? computeWhatIfTotals() : null
whatIfTotals == IF whatIfMode THEN computeWhatIfTotals(SheetState) ELSE Null

\* the texts a user types into the form fields
BuyTexts == {<<"0">>, <<"2">>}

SellTexts == {<<>>, <<"4">>}

WhatIfTexts == {<<>>, <<"6">>}

AmountTexts == {<<>>, <<"0">>, <<"1">>}

DescriptionTexts == {<<" ">>, <<"x">>}

ISODate == <<"T">>

\* Home: the flips that the loadFlipTotals run by the focus effect iterates.
\* useFocusEffect(useCallback(() => { refreshFlips(); loadFlipTotals(); }, []))
\* keeps the callback of the first render of Home for good, and with it that
\* render's loadFlipTotals and flips; Home is the initial route and renders
\* first while the provider's flips is still its initial state, []
focusEffectFlips == <<>>

\* Home loadFlipTotals over the given flips: totals[flip.id] for every flip
\* whose computeTotals does not throw, as <<id, totals>> entries
RECURSIVE loadFlipTotals(_, _, _)
loadFlipTotals(flipList, F, L) ==
  IF flipList = <<>> THEN <<>>
  ELSE (IF IsThrown(ctxComputeTotals(F, L, Head(flipList).id)) THEN <<>>
        ELSE <<<<Head(flipList).id, ctxComputeTotals(F, L, Head(flipList).id)>>>>)
       \o loadFlipTotals(Tail(flipList), F, L)

\* Home gains focus: refreshFlips() and loadFlipTotals(), both run to their
\* end on the tables F and L
FocusHome(F, L) == flipTotals' = loadFlipTotals(focusEffectFlips, F, L)

InitScreens ==
  /\ screen = "Home"
  /\ flipId = NoFlipId
  /\ flip = Null
  /\ lineItems = <<>>
  /\ totals = ZeroTotals
  /\ isEditing = TRUE
  /\ buyPrice = <<>>
  /\ sellPrice = <<>>
  /\ whatIfMode = FALSE
  /\ whatIfSellPrice = <<>>
  /\ ctCall = Null
  /\ inFlight = <<>>

\* Home: a tap on a listed flip, or on the + button (fid = NoFlipId); the sheet
\* mounts and its focus effect loads the flip
OpenFlipSheet(fid) ==
  /\ screen = "Home"
  /\ ctCall = Null
  /\ fid = NoFlipId \/ getFlipById(db_flips, fid) # Null
  /\ screen' = "FlipSheet"
  /\ SetSheet(fid, loadFlip(db_flips, db_line_items, fid, MountState(fid)))
  /\ UNCHANGED <<parserVars, asyncVars, exportVars, homeVars, storeVars, ctCall>>

\* navigation.goBack(): the sheet unmounts
GoBack ==
  /\ screen = "FlipSheet"
  /\ screen' = "Home"
  /\ SetSheet(NoFlipId, MountState(NoFlipId))
  /\ FocusHome(db_flips, db_line_items)
  /\ UNCHANGED <<parserVars, inFlight, exportVars, homeVars, storeVars, ctCall>>

\* the user presses Edit unless the form is editable already, fills in the
\* buy and sell price fields, leaves the year, make, model and miles fields
\* empty (yearNum, make || undefined, ... are all undefined) and presses Save
\* Flip: saveFlip.  After
\* navigation.setParams the focus effect runs loadFlip again with the new
\* flipId (the awaited loadFlip still sees the old one)
saveFlip(buyPriceText, sellPriceText) ==
  /\ screen = "FlipSheet"
  /\ LET buyPriceNum  == parseFloat(buyPriceText)
         sellPriceNum == IF sellPriceText # <<>> THEN parseFloat(sellPriceText) ELSE Null
         typed        == [SheetState EXCEPT !.isEditing = TRUE,
                                            !.buyPrice = buyPriceText,
                                            !.sellPrice = sellPriceText]
     IN  IF Falsy(buyPriceNum) \/ NumLeqZero(buyPriceNum)
         THEN SetSheet(flipId, typed) /\ UNCHANGED storeVars
         ELSE IF flipId # NoFlipId /\ flip # Null
         THEN LET F == updateFlip(db_flips, flipId,
                                  [buy_price |-> buyPriceNum, sell_price |-> sellPriceNum])
              IN  /\ db_flips' = F
                  /\ SetSheet(flipId,
                              loadFlip(F, db_line_items, flipId,
                                       [typed EXCEPT !.isEditing = FALSE]))
                  /\ UNCHANGED <<db_line_items, seq_flips, seq_line_items>>
         ELSE LET newFlipId == seq_flips + 1
                  F == createFlip(db_flips, newFlipId,
                                  FlipInput(Null, Null, Null, Null, Null,
                                            buyPriceNum, sellPriceNum))
                  st1 == loadFlip(F, db_line_items, flipId,
                                  [typed EXCEPT !.isEditing = FALSE])
              IN  /\ seq_flips < MaxFlips
                  /\ db_flips' = F
                  /\ seq_flips' = newFlipId
                  /\ SetSheet(newFlipId, loadFlip(F, db_line_items, newFlipId, st1))
                  /\ UNCHANGED <<db_line_items, seq_line_items>>
  /\ UNCHANGED <<parserVars, asyncVars, exportVars, homeVars, screen, ctCall>>

\* handleAddLineItem with the texts of the two new-item fields (the fields
\* are rendered once flipId is set; the handler checks flipId itself)
handleAddLineItem(newItemAmount, newItemDescription) ==
  /\ screen = "FlipSheet"
  /\ LET amount == parseFloat(newItemAmount)
     IN  IF \/ Trim(newItemAmount) = <<>> \/ Trim(newItemDescription) = <<>>
            \/ flipId = NoFlipId
            \/ isNaN(amount) \/ NumLeqZero(amount)
            \/ (ForeignKeysOn /\ getFlipById(db_flips, flipId) = Null)
         THEN UNCHANGED <<storeVars, sheetVars>>
         ELSE LET L == addLineItem(db_line_items, seq_line_items + 1,
                                   [flip_id  |-> flipId,
                                    title    |-> Trim(newItemDescription),
                                    amount   |-> amount,
                                    category |-> Null])
              IN  /\ seq_line_items < MaxItems
                  /\ db_line_items' = L
                  /\ seq_line_items' = seq_line_items + 1
                  /\ SetSheet(flipId, loadFlip(db_flips, L, flipId, SheetState))
                  /\ UNCHANGED <<db_flips, seq_flips>>
  /\ UNCHANGED <<parserVars, asyncVars, exportVars, homeVars, screen, ctCall>>

\* handleDeleteLineItem, confirmed, for an item of the displayed list
handleDeleteLineItem(itemId) ==
  /\ screen = "FlipSheet"
  /\ flipId # NoFlipId
  /\ \E i \in 1..Len(lineItems) : lineItems[i].id = itemId
  /\ LET L == deleteLineItem(db_line_items, itemId)
     IN  /\ db_line_items' = L
         /\ SetSheet(flipId, loadFlip(db_flips, L, flipId, SheetState))
  /\ UNCHANGED <<parserVars, asyncVars, exportVars, homeVars, db_flips, seq_flips, seq_line_items, screen, ctCall>>

\* handleMarkSold; the button is rendered only for a loaded flip without a
\* sold date
handleMarkSold ==
  /\ screen = "FlipSheet"
  /\ flipId # NoFlipId
  /\ flip # Null
  /\ flip.sold_date = Null
  /\ LET F == updateFlip(db_flips, flipId, [sold_date |-> ISODate])
     IN  /\ db_flips' = F
         /\ SetSheet(flipId, loadFlip(F, db_line_items, flipId, SheetState))
  /\ UNCHANGED <<parserVars, asyncVars, exportVars, homeVars, db_line_items, seq_flips, seq_line_items, screen, ctCall>>

\* handleDuplicate: FlipsContext.duplicateFlip, then navigate to the copy,
\* which gives this sheet the new flipId and runs its focus effect
handleDuplicate ==
  /\ screen = "FlipSheet"
  /\ flipId # NoFlipId
  /\ flip # Null
  /\ LET items     == getLineItemsByFlip(db_line_items, flipId)
         newFlipId == seq_flips + 1
         copy      == duplicateFlip(db_flips, db_line_items, flipId, newFlipId,
                                    seq_line_items)
     IN  IF IsThrown(copy) THEN UNCHANGED <<storeVars, sheetVars>>
         ELSE /\ seq_flips < MaxFlips
              /\ seq_line_items + Len(items) <= MaxItems
              /\ db_flips' = copy.flips
              /\ db_line_items' = copy.line_items
              /\ seq_flips' = newFlipId
              /\ seq_line_items' = seq_line_items + Len(items)
              /\ SetSheet(newFlipId,
                          loadFlip(copy.flips, copy.line_items, newFlipId, SheetState))
  /\ UNCHANGED <<parserVars, asyncVars, exportVars, homeVars, screen, ctCall>>

\* handleDelete, confirmed: deleteFlip, then goBack
handleDelete ==
  /\ screen = "FlipSheet"
  /\ flipId # NoFlipId
  /\ flip # Null
  /\ db_flips' = deleteFlip(db_flips, flipId)
  /\ db_line_items' = deleteFlipCascade(db_line_items, flipId)
  /\ screen' = "Home"
  /\ SetSheet(NoFlipId, MountState(NoFlipId))
  /\ FocusHome(db_flips', db_line_items')
  /\ UNCHANGED <<parserVars, inFlight, exportVars, homeVars, seq_flips, seq_line_items, ctCall>>

\* the What-if Mode toggle, rendered once the sheet has a flipId
ToggleWhatIfMode ==
  /\ screen = "FlipSheet"
  /\ flipId # NoFlipId
  /\ whatIfMode' = ~whatIfMode
  /\ UNCHANGED <<parserVars, asyncVars, exportVars, homeVars, storeVars, screen, flipId, flip, lineItems, totals,
                 isEditing, buyPrice, sellPrice, whatIfSellPrice, ctCall>>

\* typing into the what-if sell price field
SetWhatIfSellPrice(text) ==
  /\ screen = "FlipSheet"
  /\ flipId # NoFlipId
  /\ whatIfMode
  /\ whatIfSellPrice' = text
  /\ UNCHANGED <<parserVars, asyncVars, exportVars, homeVars, storeVars, screen, flipId, flip, lineItems, totals,
                 isEditing, buyPrice, sellPrice, whatIfMode, ctCall>>

\* a caller invokes the context's computeTotals with some flip id; what it
\* gets back, a value or a thrown error, is recorded
CallComputeTotals(id) ==
  /\ screen = "Home"
  /\ ctCall = Null
  /\ ctCall' = [flipId |-> id, outcome |-> ctxComputeTotals(db_flips, db_line_items, id)]
  /\ UNCHANGED <<parserVars, asyncVars, exportVars, homeVars, storeVars, screen, sheetVars>>

\* the caller is done with the outcome
CallReturns ==
  /\ ctCall # Null
  /\ ctCall' = Null
  /\ UNCHANGED <<parserVars, asyncVars, exportVars, homeVars, storeVars, screen, sheetVars>>

(***************************************************************************)
(* The exports (screens/Settings.tsx over utils/taxExport.ts).  A text is  *)
(* the sequence of its lines; a line is the fixed words of its template    *)
(* with the values interpolated into it, so two texts are the same bytes   *)
(* exactly if they are the same sequence.  The rows carry no created_at    *)
(* and no item date, and the lines and cells that print them are left out. *)
(***************************************************************************)
Parts == <<"parts">>

Labor == <<"labor">>

Fees == <<"fees">>

Misc == <<"misc">>

\* categories in another order
categories_LaborFirst == <<Labor, Parts, Fees, Misc>>

\* const categories = ['parts', 'labor', 'fees', 'misc']
categories == <<Parts, Labor, Fees, Misc>>

Line(template, cells) == [template |-> template, cells |-> cells]

\* Number.prototype.toFixed of a finite number
toFixed(x, digits) ==
  LET scale  == Pow10(digits)
      scaled == (2 * Abs(x[1]) * scale + x[2]) \div (2 * x[2])
      ip     == NatDigits(scaled \div scale, 1)
      fp     == IF digits = 0 THEN <<>>
                ELSE <<".">> \o NatDigits(scaled % scale, digits)
  IN  (IF x[1] < 0 /\ scaled > 0 THEN <<"-">> ELSE <<>>) \o ip \o fp

\* utils/currency.ts formatCurrency: the currency symbol and the amount to
\* two decimals
formatCurrency(amount) ==
  LET digits == toFixed(amount, 2)
  IN  IF Head(digits) = "-" THEN <<"-", "$">> \o Tail(digits) ELSE <<"$">> \o digits

\* formatCurrency(x).replace('$', '')
WithoutSymbol(text) ==
  LET at == CHOOSE i \in 1..(Len(text) + 1) :
              /\ i <= Len(text) => text[i] = "$"
              /\ \A j \in 1..(i - 1) : text[j] # "$"
  IN  SubSeq(text, 1, at - 1) \o SubSeq(text, at + 1, Len(text))

\* new Date().toLocaleDateString() and new Date().getFullYear()
toLocaleDateString(date) == <<date.day, date.year>>

getFullYear(date) == date.year

\* a listing that sorts the items of a category by amount, largest first
RECURSIVE SortedByAmount(_)
SortedByAmount(items) ==
  IF items = <<>> THEN <<>>
  ELSE LET top == CHOOSE i \in 1..Len(items) :
                    \A j \in 1..Len(items) :
                      /\ ~NumGtZero(NumSub(items[j].amount, items[i].amount))
                      /\ (j < i => NumGtZero(NumSub(items[i].amount, items[j].amount)))
       IN  <<items[top]>> \o
           SortedByAmount(SubSeq(items, 1, top - 1) \o SubSeq(items, top + 1, Len(items)))

categoryItems_Sorted(items, category) ==
  SortedByAmount(SelectSeq(items, LAMBDA item : item.category = category))

\* items.filter(item => item.category === category)
categoryItems(items, category) ==
  SelectSeq(items, LAMBDA item : item.category = category)

\* a listing that leaves out the items without a category
uncategorizedItems_Dropped(items) == <<>>

\* items.filter(item => !item.category)
uncategorizedItems(items) ==
  SelectSeq(items, LAMBDA item : FalsyText(item.category))

\* [flip.year, flip.make, flip.model].filter(Boolean).join(' ') || fallback
displayName(f, fallback) ==
  LET named == (IF Falsy(f.year) THEN <<>> ELSE <<NumToString(f.year)>>)
               \o (IF FalsyText(f.make) THEN <<>> ELSE <<f.make>>)
               \o (IF FalsyText(f.model) THEN <<>> ELSE <<f.model>>)
  IN  IF named = <<>> THEN <<fallback>> ELSE named

\* value || '' of the CSV cells
OrEmpty(x) == IF Falsy(x) THEN <<>> ELSE NumToString(x)

\* (totals.roi * 100).toFixed(digits)
Percent(roi, digits) == toFixed(NumMul(roi, Num(100)), digits)

\* generateTaxExportPDF, the lines of one category in the detailed expenses
RECURSIVE ExpenseLines(_, _)
ExpenseLines(items, label) ==
  IF items = <<>> THEN <<>>
  ELSE <<Line("expense", <<label, items[1].title, formatCurrency(items[1].amount)>>)>>
       \o ExpenseLines(Tail(items), label)

\* generateTaxExportPDF, the detailed expenses of categories[k], ...
RECURSIVE DetailedExpenses(_, _)
DetailedExpenses(items, k) ==
  IF k > Len(categories) THEN <<>>
  ELSE ExpenseLines(categoryItems(items, categories[k]), categories[k])
       \o DetailedExpenses(items, k + 1)

\* an expense summary that prints a line for each of the four categories,
\* with or without items
RECURSIVE CategoryTotals_Always(_, _)
CategoryTotals_Always(items, k) ==
  IF k > Len(categories) THEN <<>>
  ELSE <<Line("category total",
              <<categories[k],
                formatCurrency(SumAmounts(categoryItems(items, categories[k])))>>)>>
       \o CategoryTotals_Always(items, k + 1)

\* generateTaxExportPDF, the expense summary of categories[k], ...
RECURSIVE CategoryTotals(_, _)
CategoryTotals(items, k) ==
  IF k > Len(categories) THEN <<>>
  ELSE (IF categoryItems(items, categories[k]) = <<>> THEN <<>>
        ELSE <<Line("category total",
                    <<categories[k],
                      formatCurrency(SumAmounts(categoryItems(items, categories[k])))>>)>>)
       \o CategoryTotals(items, k + 1)

\* generateTaxExportPDF(data) run at the date now
generateTaxExportPDF(data, now) ==
  LET f == data.flip
      items == data.lineItems
      shortTermGain == IF FalsyText(f.sold_date) THEN Num(0) ELSE data.totals.profit
      uncategorizedTotal == SumAmounts(uncategorizedItems(items))
  IN  <<Line("TAX REPORT - VEHICLE FLIP", <<>>),
        Line("Generated", <<toLocaleDateString(now)>>),
        Line("Tax Year", <<data.taxYear>>),
        Line("VEHICLE INFORMATION", <<>>),
        Line("Vehicle", displayName(f, "Vehicle Flip")),
        Line("VIN", <<IF FalsyText(f.vin) THEN "Not provided" ELSE f.vin>>),
        Line("Miles", <<IF Falsy(f.miles) THEN "Not provided" ELSE NumToString(f.miles)>>)>>
      \o (IF FalsyText(f.sold_date) THEN <<>> ELSE <<Line("Sale Date", <<f.sold_date>>)>>)
      \o <<Line("FINANCIAL SUMMARY", <<>>),
           Line("Purchase Price", <<formatCurrency(f.buy_price)>>),
           Line("Sale Price",
                <<formatCurrency(IF Falsy(f.sell_price) THEN Num(0) ELSE f.sell_price)>>),
           Line("Total Expenses", <<formatCurrency(data.totals.totalCost)>>),
           Line("Total Investment",
                <<formatCurrency(NumAdd(f.buy_price, data.totals.totalCost))>>),
           Line("Gross Profit/Loss", <<formatCurrency(data.totals.profit)>>),
           Line("ROI", <<Percent(data.totals.roi, 2)>>),
           Line("TAX IMPLICATIONS", <<>>),
           Line("Taxable Amount", <<formatCurrency(shortTermGain)>>),
           Line("DETAILED EXPENSES", <<>>),
           Line("Purchase", <<formatCurrency(f.buy_price)>>)>>
      \o DetailedExpenses(items, 1)
      \o ExpenseLines(uncategorizedItems(items), Misc)
      \o <<Line("TOTAL EXPENSES", <<formatCurrency(data.totals.totalCost)>>),
           Line("EXPENSE SUMMARY BY CATEGORY", <<>>)>>
      \o CategoryTotals(items, 1)
      \o (IF NumGtZero(uncategorizedTotal)
          THEN <<Line("Miscellaneous", <<formatCurrency(uncategorizedTotal)>>)>>
          ELSE <<>>)
      \o <<Line("IMPORTANT NOTES", <<>>)>>

\* generateAllFlipsTaxReport, the items under a category heading
RECURSIVE BreakdownItems(_)
BreakdownItems(items) ==
  IF items = <<>> THEN <<>>
  ELSE <<Line("item", <<items[1].title, formatCurrency(items[1].amount)>>)>>
       \o BreakdownItems(Tail(items))

\* generateAllFlipsTaxReport, the expense breakdown of categories[k], ...
RECURSIVE ExpenseBreakdown(_, _)
ExpenseBreakdown(items, k) ==
  IF k > Len(categories) THEN <<>>
  ELSE (IF categoryItems(items, categories[k]) = <<>> THEN <<>>
        ELSE <<Line("category",
                    <<categories[k],
                      formatCurrency(SumAmounts(categoryItems(items, categories[k])))>>)>>
             \o BreakdownItems(categoryItems(items, categories[k])))
       \o ExpenseBreakdown(items, k + 1)

\* generateAllFlipsTaxReport, the body of flips.forEach for flips[index]
VehicleBreakdown(flipData, index) ==
  LET f == flipData.flip
      items == flipData.lineItems
      uncategorized == uncategorizedItems(items)
  IN  <<Line("VEHICLE", <<index, displayName(f, <<"Vehicle", index>>)>>),
        Line("Sale Date", <<IF FalsyText(f.sold_date) THEN "Not sold" ELSE f.sold_date>>),
        Line("VIN", <<IF FalsyText(f.vin) THEN "Not provided" ELSE f.vin>>),
        Line("Miles", <<IF Falsy(f.miles) THEN "Not provided" ELSE NumToString(f.miles)>>),
        Line("FINANCIALS", <<>>),
        Line("Purchase Price", <<formatCurrency(f.buy_price)>>),
        Line("Sale Price",
             <<formatCurrency(IF Falsy(f.sell_price) THEN Num(0) ELSE f.sell_price)>>),
        Line("Operating Expenses", <<formatCurrency(flipData.totals.totalCost)>>),
        Line("Total Investment",
             <<formatCurrency(NumAdd(f.buy_price, flipData.totals.totalCost))>>),
        Line("Profit/Loss", <<formatCurrency(flipData.totals.profit)>>),
        Line("ROI", <<Percent(flipData.totals.roi, 2)>>)>>
      \o (IF items = <<>> THEN <<>>
          ELSE <<Line("EXPENSE BREAKDOWN", <<>>)>>
               \o ExpenseBreakdown(items, 1)
               \o (IF uncategorized = <<>> THEN <<>>
                   ELSE <<Line("MISCELLANEOUS",
                               <<formatCurrency(SumAmounts(uncategorized))>>)>>
                        \o BreakdownItems(uncategorized)))
      \o <<Line("end of vehicle", <<>>)>>

RECURSIVE VehicleBreakdowns(_, _)
VehicleBreakdowns(flipsData, index) ==
  IF index > Len(flipsData) THEN <<>>
  ELSE VehicleBreakdown(flipsData[index], index) \o VehicleBreakdowns(flipsData, index + 1)

\* allExpenses[category] = (allExpenses[category] || 0) + item.amount, the
\* entries kept in the order their keys were first set
AddExpense(allExpenses, item) ==
  LET category == IF FalsyText(item.category) THEN Misc ELSE item.category
  IN  IF \E i \in 1..Len(allExpenses) : allExpenses[i][1] = category
      THEN [i \in 1..Len(allExpenses) |->
              IF allExpenses[i][1] = category
              THEN <<category, NumAdd(allExpenses[i][2], item.amount)>>
              ELSE allExpenses[i]]
      ELSE Append(allExpenses, <<category, item.amount>>)

RECURSIVE AddExpenses(_, _)
AddExpenses(allExpenses, items) ==
  IF items = <<>> THEN allExpenses
  ELSE AddExpenses(AddExpense(allExpenses, items[1]), Tail(items))

RECURSIVE CombinedExpenses(_, _, _)
CombinedExpenses(allExpenses, flipsData, index) ==
  IF index > Len(flipsData) THEN allExpenses
  ELSE CombinedExpenses(AddExpenses(allExpenses, flipsData[index].lineItems),
                        flipsData, index + 1)

\* generateAllFlipsTaxReport(data) run at the date now
generateAllFlipsTaxReport(data, now) ==
  LET summary == data.summary
      allExpenses == CombinedExpenses(<<>>, data.flips, 1)
  IN  <<Line("COMPLETE TAX REPORT - ALL VEHICLE FLIPS", <<>>),
        Line("Generated", <<toLocaleDateString(now)>>),
        Line("Tax Year", <<data.taxYear>>),
        Line("EXECUTIVE SUMMARY", <<>>),
        Line("Total Vehicles Flipped", <<summary.totalFlips>>),
        Line("Total Sales Revenue", <<formatCurrency(summary.totalSales)>>),
        Line("Total Purchase Cost", <<formatCurrency(summary.totalPurchases)>>),
        Line("Total Operating Expenses", <<formatCurrency(summary.totalExpenses)>>),
        Line("Net Gain/Loss", <<formatCurrency(summary.netGainLoss)>>),
        Line("TAX TREATMENT", <<>>),
        Line("DETAILED VEHICLE-BY-VEHICLE BREAKDOWN", <<>>)>>
      \o VehicleBreakdowns(data.flips, 1)
      \o <<Line("COMBINED EXPENSE SUMMARY BY CATEGORY", <<>>)>>
      \o [i \in 1..Len(allExpenses) |->
            Line("combined", <<allExpenses[i][1], formatCurrency(allExpenses[i][2])>>)]
      \o <<Line("TAX PREPARATION CHECKLIST", <<>>),
           Line("IMPORTANT TAX NOTES", <<>>)>>

\* FlipsContext flips: SELECT * FROM flips ORDER BY created_at DESC, the
\* newest row first
RECURSIVE NewestFirst(_)
NewestFirst(F) == IF F = <<>> THEN <<>> ELSE NewestFirst(Tail(F)) \o <<F[1]>>

\* generateCSV(flipId), the rows of the expenses
RECURSIVE ExpenseRows(_)
ExpenseRows(items) ==
  IF items = <<>> THEN <<>>
  ELSE <<Line("expense row",
              <<items[1].title, NumToString(items[1].amount), items[1].category>>)>>
       \o ExpenseRows(Tail(items))

\* the cells of a flip that both CSV exports print
FlipCells(f) ==
  <<OrEmpty(f.year), f.make, f.model, OrEmpty(f.miles), NumToString(f.buy_price),
    OrEmpty(f.sell_price), f.sold_date>>

\* generateCSV(), the summary rows
RECURSIVE FlipRows(_, _, _)
FlipRows(flips, F, L) ==
  IF flips = <<>> THEN <<>>
  ELSE LET f == flips[1]
           t == ctxComputeTotals(F, L, f.id)
       IN  <<Line("flip row",
                  <<f.id>> \o FlipCells(f)
                  \o <<NumToString(NumAdd(f.buy_price, t.totalCost)),
                       NumToString(t.profit), Percent(t.roi, 1)>>)>>
           \o FlipRows(Tail(flips), F, L)

RECURSIVE DetailRowsOf(_, _)
DetailRowsOf(f, items) ==
  IF items = <<>> THEN <<>>
  ELSE <<Line("detail row",
              <<f.id, displayName(f, "Untitled Flip"), items[1].title,
                NumToString(items[1].amount), items[1].category>>)>>
       \o DetailRowsOf(f, Tail(items))

\* generateCSV(), the detailed line items
RECURSIVE DetailRows(_, _)
DetailRows(flips, L) ==
  IF flips = <<>> THEN <<>>
  ELSE DetailRowsOf(flips[1], getLineItemsByFlip(L, flips[1].id))
       \o DetailRows(Tail(flips), L)

\* the flip id of an export of all flips (flipId undefined)
AllFlips == 0

\* generateCSV(flipId) over the tables F and L, run at the date now: the
\* text, or the error it throws
generateCSV(F, L, id, now) ==
  LET flips == NewestFirst(F)
  IN  IF id # AllFlips
      THEN LET f == getFlipById(F, id)
               items == getLineItemsByFlip(L, id)
               t == ctxComputeTotals(F, L, id)
           IN  IF f = Null THEN Thrown("Flip not found")
               ELSE <<Line("AutoTrackr Export", displayName(f, "Untitled Flip")),
                      Line("Generated", <<toLocaleDateString(now)>>),
                      Line("Vehicle Information", <<>>),
                      Line("flip", FlipCells(f)),
                      Line("Expenses", <<>>)>>
                    \o ExpenseRows(items)
                    \o <<Line("Totals", <<>>),
                         Line("Total Cost",
                              <<WithoutSymbol(formatCurrency(NumAdd(f.buy_price,
                                                                    t.totalCost)))>>),
                         Line("Profit", <<WithoutSymbol(formatCurrency(t.profit))>>),
                         Line("ROI", <<Percent(t.roi, 1)>>)>>
      ELSE <<Line("AutoTrackr - All Flips Export", <<>>),
             Line("Generated", <<toLocaleDateString(now)>>),
             Line("flips", <<>>)>>
           \o FlipRows(flips, F, L)
           \o <<Line("Detailed Line Items", <<>>)>>
           \o DetailRows(flips, L)

\* Math.abs
NumAbs(x) == <<Abs(x[1]), x[2]>>

ZeroSummary ==
  [totalSales |-> Num(0), totalPurchases |-> Num(0), totalExpenses |-> Num(0),
   totalProfit |-> Num(0), totalLoss |-> Num(0)]

\* a summary step that adds the investment to the expenses
SummaryStep_InvestmentAsExpenses(sums, f, t) ==
  [totalSales     |-> NumAdd(sums.totalSales,
                             IF Falsy(f.sell_price) THEN Num(0) ELSE f.sell_price),
   totalPurchases |-> NumAdd(sums.totalPurchases, f.buy_price),
   totalExpenses  |-> NumAdd(sums.totalExpenses, NumAdd(f.buy_price, t.totalCost)),
   totalProfit    |-> IF NumGtZero(t.profit) THEN NumAdd(sums.totalProfit, t.profit)
                      ELSE sums.totalProfit,
   totalLoss      |-> IF NumGtZero(t.profit) THEN sums.totalLoss
                      ELSE NumAdd(sums.totalLoss, NumAbs(t.profit))]

\* a summary step that adds a negative profit to the loss as it is
SummaryStep_SignedLoss(sums, f, t) ==
  [totalSales     |-> NumAdd(sums.totalSales,
                             IF Falsy(f.sell_price) THEN Num(0) ELSE f.sell_price),
   totalPurchases |-> NumAdd(sums.totalPurchases, f.buy_price),
   totalExpenses  |-> NumAdd(sums.totalExpenses, t.totalCost),
   totalProfit    |-> IF NumGtZero(t.profit) THEN NumAdd(sums.totalProfit, t.profit)
                      ELSE sums.totalProfit,
   totalLoss      |-> IF NumGtZero(t.profit) THEN sums.totalLoss
                      ELSE NumAdd(sums.totalLoss, t.profit)]

\* exportCompleteTaxReport, "Calculate summary totals" for the flip f with
\* totals t
SummaryStep(sums, f, t) ==
  [totalSales     |-> NumAdd(sums.totalSales,
                             IF Falsy(f.sell_price) THEN Num(0) ELSE f.sell_price),
   totalPurchases |-> NumAdd(sums.totalPurchases, f.buy_price),
   totalExpenses  |-> NumAdd(sums.totalExpenses, t.totalCost),
   totalProfit    |-> IF NumGtZero(t.profit) THEN NumAdd(sums.totalProfit, t.profit)
                      ELSE sums.totalProfit,
   totalLoss      |-> IF NumGtZero(t.profit) THEN sums.totalLoss
                      ELSE NumAdd(sums.totalLoss, NumAbs(t.profit))]

\* exportCompleteTaxReport, the loop over flips: the sums after it
RECURSIVE SummaryTotals(_, _, _, _)
SummaryTotals(sums, flips, F, L) ==
  IF flips = <<>> THEN sums
  ELSE SummaryTotals(SummaryStep(sums, flips[1], ctxComputeTotals(F, L, flips[1].id)),
                     Tail(flips), F, L)

\* exportCompleteTaxReport, the loop over flips: flipsData after it
FlipsData(flips, F, L) ==
  [i \in 1..Len(flips) |->
     [flip      |-> flips[i],
      lineItems |-> getLineItemsByFlip(L, flips[i].id),
      totals    |-> ctxComputeTotals(F, L, flips[i].id)]]

\* exportCompleteTaxReport: the taxData handed to exportAllFlipsTaxReport
TaxData(F, L, now) ==
  LET flips == NewestFirst(F)
      sums  == SummaryTotals(ZeroSummary, flips, F, L)
  IN  [flips   |-> FlipsData(flips, F, L),
       taxYear |-> getFullYear(now),
       summary |-> [totalFlips     |-> Len(flips),
                    totalProfit    |-> sums.totalProfit,
                    totalLoss      |-> sums.totalLoss,
                    netGainLoss    |-> NumSub(sums.totalProfit, sums.totalLoss),
                    totalExpenses  |-> sums.totalExpenses,
                    totalSales     |-> sums.totalSales,
                    totalPurchases |-> sums.totalPurchases]]

\* the dates the exports run at
Dates == {[year |-> 2025, day |-> 1], [year |-> 2025, day |-> 2]}

InitSettings ==
  /\ today = [year |-> 2025, day |-> 1]
  /\ exported = Pending
  /\ exportedBefore = Pending

\* an export has produced text from data on the request
Export(request, data, text) ==
  /\ exported' = [request |-> request, data |-> data, text |-> text]
  /\ exportedBefore' = IF exported # Pending /\ exported.request = request
                       THEN exported ELSE Pending
  /\ UNCHANGED today

\* Settings: the Tax Report button of a listed flip, exportTaxReportForFlip
exportTaxReportForFlip(id) ==
  /\ getFlipById(db_flips, id) # Null
  /\ LET data == [flip      |-> getFlipById(db_flips, id),
                  lineItems |-> getLineItemsByFlip(db_line_items, id),
                  totals    |-> ctxComputeTotals(db_flips, db_line_items, id),
                  taxYear   |-> getFullYear(today)]
     IN  Export(<<"tax report", id>>, data, generateTaxExportPDF(data, today))
  /\ UNCHANGED <<parserVars, asyncVars, storeVars, screen, sheetVars, ctCall, homeVars>>

\* Settings: the Complete Tax Report button, exportCompleteTaxReport
exportCompleteTaxReport ==
  /\ IF db_flips = <<>> THEN UNCHANGED exportVars
     ELSE LET data == TaxData(db_flips, db_line_items, today)
          IN  Export(<<"complete tax report", AllFlips>>, data,
                     generateAllFlipsTaxReport(data, today))
  /\ UNCHANGED <<parserVars, asyncVars, storeVars, screen, sheetVars, ctCall, homeVars>>

\* Settings: the CSV buttons, exportCSV of a listed flip or of all flips
exportCSV(id) ==
  /\ id = AllFlips \/ getFlipById(db_flips, id) # Null
  /\ Export(<<"csv", id>>, Null, generateCSV(db_flips, db_line_items, id, today))
  /\ UNCHANGED <<parserVars, asyncVars, storeVars, screen, sheetVars, ctCall, homeVars>>

\* the date changes
DayPasses ==
  /\ \E date \in Dates : date.day > today.day /\ today' = date
  /\ UNCHANGED <<parserVars, asyncVars, storeVars, screen, sheetVars, ctCall, homeVars,
                 exported, exportedBefore>>

InitHome ==
  /\ selectedTab = "open"
  /\ isSelectionMode = FALSE
  /\ selectedFlips = <<>>
  /\ lastCall = Pending
  /\ flipTotals = <<>>

Init ==
  /\ qeInput = <<>>
  /\ qeResult = Pending
  /\ emResult = Pending
  /\ InitStore
  /\ InitScreens
  /\ InitSettings
  /\ InitHome

Next ==
  \/ \E fid \in {NoFlipId} \cup (1..MaxFlips) : OpenFlipSheet(fid)
  \/ GoBack
  \/ \E b \in BuyTexts, t \in SellTexts : saveFlip(b, t)
  \/ \E a \in AmountTexts, d \in DescriptionTexts : handleAddLineItem(a, d)
  \/ \E itemId \in 1..MaxItems : handleDeleteLineItem(itemId)
  \/ handleMarkSold
  \/ handleDuplicate
  \/ handleDelete
  \/ ToggleWhatIfMode
  \/ \E text \in WhatIfTexts : SetWhatIfSellPrice(text)
  \/ \E id \in 1..(MaxFlips + 1) : CallComputeTotals(id)
  \/ CallReturns

Spec == Init /\ [][Next]_vars

(***************************************************************************)
(* The quick-entry parser applied to bounded inputs                        *)
(***************************************************************************)
Alphabet == {"0", "2", ".", "+", "-", "*", "/", " ", "$", "x"}

ExNewBattery ==
  <<"$", "1", "5", "0", "-", "2", "5", " ", "-", " ",
    "n", "e", "w", " ", "b", "a", "t", "t", "e", "r", "y">>

ExOilFilter == <<"4", "5", " ", "o", "i", "l", " ", "f", "i", "l", "t", "e", "r">>

ExDivZero == <<"1", "0", "/", "0", " ", "s", "o", "m", "e", "t", "h", "i", "n", "g">>

ExLaterGrammar == <<"0", "-", "1", "+", "2", " ", "x">>

ExPrecedence == <<"2", "+", "3", "*", "4", " ", "x">>

ExLeftSub == <<"1", "0", "-", "2", "-", "3", " ", "-", " ", "x">>

ExLeftDiv == <<"8", "/", "2", "*", "3", " ", "x">>

ExCountInTitle == <<"4", "5", " ", "2", " ", "o", "i", "l">>

ExBlank == <<" ", "\t", " ">>

ExHalfCent == <<"1", ".", "0", "0", "5", " ", "x">>

ExpressionExamples ==
  {<<"2", "+", "3", "*", "4">>, <<"1", "0", "-", "2", "-", "3">>,
   <<"8", "/", "2", "*", "3">>, <<"1", "/", "3">>, <<"4", "5">>}

Examples ==
  {ExNewBattery, ExOilFilter, ExDivZero, ExLaterGrammar, ExPrecedence,
   ExLeftSub, ExLeftDiv, ExCountInTitle, ExBlank, ExHalfCent} \cup ExpressionExamples

Inputs == UNION {[1..n -> Alphabet] : n \in 0..MaxInputLen} \cup Examples

InitParse ==
  /\ qeInput \in Inputs
  /\ qeResult = Pending
  /\ emResult = Pending
  /\ InitStore
  /\ InitScreens
  /\ InitSettings
  /\ InitHome

\* parseLineItem applied to the input
Parse ==
  /\ qeResult = Pending
  /\ emResult = Pending
  /\ qeResult' = parseLineItem(qeInput)
  /\ UNCHANGED <<qeInput, emResult, asyncVars, storeVars, screen, sheetVars, ctCall,
                 exportVars, homeVars>>

\* evaluateMath applied to the input
Evaluate ==
  /\ qeResult = Pending
  /\ emResult = Pending
  /\ emResult' = evaluateMath(qeInput)
  /\ UNCHANGED <<qeInput, qeResult, asyncVars, storeVars, screen, sheetVars, ctCall,
                 exportVars, homeVars>>

NextParse == Parse \/ Evaluate

SpecParse == InitParse /\ [][NextParse]_vars

(***************************************************************************)
(* The exports applied to bounded tables                                   *)
(***************************************************************************)
\* the titles of the line items, by id
Titles == <<"A", "B", "C", "D", "E">>

\* a row of flips as createFlip and updateFlip leave it
FlipRow(id, buy_price, sell_price) ==
  [id         |-> id,
   year       |-> Null,
   make       |-> Null,
   model      |-> Null,
   vin        |-> Null,
   miles      |-> Null,
   buy_price  |-> buy_price,
   sell_price |-> sell_price,
   sold_date  |-> IF sell_price = Null THEN Null ELSE ISODate]

\* a row of line_items as addLineItem leaves it: the items have different
\* titles, and amounts of which no two sets have the same sum
ItemRow(id, flip_id, category) ==
  [id       |-> id,
   flip_id  |-> flip_id,
   title    |-> <<Titles[id]>>,
   amount   |-> Num(Pow2(id - 1)),
   category |-> category]

FlipTables(n) ==
  {[i \in 1..n |-> FlipRow(i, price[i][1], price[i][2])] :
     price \in [1..n -> {Num(1), Num(2)} \X {Null, Num(2)}]}

PlainFlips(n) == [i \in 1..n |-> FlipRow(i, Num(2), IF i = 1 THEN Num(4) ELSE Null)]

ItemTables(n, m) ==
  {[i \in 1..m |-> ItemRow(i, of[i][1], of[i][2])] :
     of \in [1..m -> (1..n) \X {Parts, Labor, Fees, Misc, Null}]}

\* the items [{A, parts}, {B, labor}, {C, parts}] of one flip
ExGroupingFlips == PlainFlips(1)

ExGroupingItems == <<ItemRow(1, 1, Parts), ItemRow(2, 1, Labor), ItemRow(3, 1, Parts)>>

\* flips with the profits 100, -50 and 30, listed newest first
ExProfitFlips ==
  <<FlipRow(1, Num(10), Num(40)), FlipRow(2, Num(50), Null),
    FlipRow(3, Num(100), Num(200))>>

\* a flip with a name and a mileage
ExNamedFlips ==
  <<[FlipRow(1, Num(2), Num(1)) EXCEPT !.year = Num(2), !.make = <<"x">>,
                                       !.vin = <<"v">>, !.miles = Num(5)]>>

ExportExamples ==
  {<<ExGroupingFlips, ExGroupingItems>>, <<ExProfitFlips, <<>>>>,
   <<ExNamedFlips, <<ItemRow(1, 1, Null)>>>>}

ExportInputs ==
  UNION {FlipTables(n) \X ItemTables(n, m) : n \in 0..MaxFlips, m \in 0..1}
  \cup UNION {{PlainFlips(n)} \X ItemTables(n, m) : n \in 1..2, m \in 2..MaxItems}
  \cup ExportExamples

InitExport ==
  /\ qeInput = <<>>
  /\ qeResult = Pending
  /\ emResult = Pending
  /\ \E tables \in ExportInputs :
       /\ db_flips = tables[1]
       /\ db_line_items = tables[2]
       /\ seq_flips = Len(tables[1])
       /\ seq_line_items = Len(tables[2])
  /\ InitScreens
  /\ InitSettings
  /\ InitHome

NextExport ==
  \/ \E id \in 1..(MaxFlips + 1) : exportTaxReportForFlip(id)
  \/ exportCompleteTaxReport
  \/ \E id \in {AllFlips} \cup (1..(MaxFlips + 1)) : exportCSV(id)
  \/ DayPasses

SpecExport == InitExport /\ [][NextExport]_vars

(***************************************************************************)
(* The context (state/FlipsContext.tsx) called with bounded arguments.     *)
(* Each call runs to its end before the next one starts.                   *)
(***************************************************************************)
\* the record of a call: its name, the flip id it was given (or the one it
\* returned, for createFlip) and what it returned or threw
Call(op, id, result) == [op |-> op, id |-> id, result |-> result]

\* a call that returned the value v
Returned(v) == [value |-> v]

\* the flips that callers create: one with the required buy price only, one
\* with every field set
FlipInputs ==
  {FlipInput(Null, Null, Null, Null, Null, Num(2), Null),
   FlipInput(Num(2), <<"x">>, <<"y">>, <<"v">>, Num(5), Num(2), Num(4))}

\* the changes that callers make: saveFlip with 0 typed into the year and
\* miles fields, and handleMarkSold
FlipUpdates == {[year |-> Num(0), miles |-> Num(0)], [sold_date |-> ISODate]}

\* FlipsContext.createFlip
ctxCreateFlip(f) ==
  /\ seq_flips < MaxFlips
  /\ db_flips' = createFlip(db_flips, seq_flips + 1, f)
  /\ seq_flips' = seq_flips + 1
  /\ lastCall' = Call("createFlip", seq_flips + 1, Returned(seq_flips + 1))
  /\ UNCHANGED <<parserVars, asyncVars, db_line_items, seq_line_items, screen, sheetVars, ctCall,
                 exportVars, isSelectionMode, selectedFlips, selectedTab>>

\* FlipsContext.updateFlip of an existing flip
ctxUpdateFlip(id, updates) ==
  /\ getFlipById(db_flips, id) # Null
  /\ db_flips' = updateFlip(db_flips, id, updates)
  /\ lastCall' = Call("updateFlip", id, Null)
  /\ UNCHANGED <<parserVars, asyncVars, db_line_items, seq_flips, seq_line_items, screen, sheetVars,
                 ctCall, exportVars, isSelectionMode, selectedFlips, selectedTab>>

\* FlipsContext.addLineItem for an existing flip
ctxAddLineItem(id, category) ==
  /\ getFlipById(db_flips, id) # Null
  /\ seq_line_items < MaxItems
  /\ db_line_items' = addLineItem(db_line_items, seq_line_items + 1,
                                  [flip_id  |-> id,
                                   title    |-> <<Titles[seq_line_items + 1]>>,
                                   amount   |-> Num(seq_line_items + 1),
                                   category |-> category])
  /\ seq_line_items' = seq_line_items + 1
  /\ lastCall' = Call("addLineItem", id, Returned(seq_line_items + 1))
  /\ UNCHANGED <<parserVars, asyncVars, db_flips, seq_flips, screen, sheetVars, ctCall,
                 exportVars, isSelectionMode, selectedFlips, selectedTab>>

\* FlipsContext.duplicateFlip with any id
ctxDuplicateFlip(id) ==
  /\ LET items == getLineItemsByFlip(db_line_items, id)
         copy  == duplicateFlip(db_flips, db_line_items, id, seq_flips + 1, seq_line_items)
     IN  IF IsThrown(copy)
         THEN /\ lastCall' = Call("duplicateFlip", id, copy)
              /\ UNCHANGED storeVars
         ELSE /\ seq_flips < MaxFlips
              /\ seq_line_items + Len(items) <= MaxItems
              /\ db_flips' = copy.flips
              /\ db_line_items' = copy.line_items
              /\ seq_flips' = seq_flips + 1
              /\ seq_line_items' = seq_line_items + Len(items)
              /\ lastCall' = Call("duplicateFlip", id, Returned(seq_flips + 1))
  /\ UNCHANGED <<parserVars, asyncVars, screen, sheetVars, ctCall, exportVars,
                 isSelectionMode, selectedFlips, selectedTab>>

\* FlipsContext.deleteFlip of an existing flip
ctxDeleteFlip(id) ==
  /\ getFlipById(db_flips, id) # Null
  /\ db_flips' = deleteFlip(db_flips, id)
  /\ db_line_items' = deleteFlipCascade(db_line_items, id)
  /\ lastCall' = Call("deleteFlip", id, Null)
  /\ UNCHANGED <<parserVars, asyncVars, seq_flips, seq_line_items, screen, sheetVars, ctCall,
                 exportVars, isSelectionMode, selectedFlips, selectedTab>>

InitContext ==
  /\ qeInput = <<>>
  /\ qeResult = Pending
  /\ emResult = Pending
  /\ InitStore
  /\ InitScreens
  /\ InitSettings
  /\ InitHome

NextContext ==
  \/ \E f \in FlipInputs : ctxCreateFlip(f)
  \/ \E id \in 1..MaxFlips, updates \in FlipUpdates : ctxUpdateFlip(id, updates)
  \/ \E id \in 1..MaxFlips, category \in {Null, Parts} : ctxAddLineItem(id, category)
  \/ \E id \in 1..(MaxFlips + 1) : ctxDuplicateFlip(id)
  \/ \E id \in 1..MaxFlips : ctxDeleteFlip(id)

SpecContext == InitContext /\ [][NextContext]_vars

(***************************************************************************)
(* The selection on the Home screen (screens/Home.tsx).  Each handler runs *)
(* to its end before the next one starts.                                  *)
(***************************************************************************)
\* flips.filter(flip => selectedTab === 'sold' ? !!flip.sold_date : !flip.sold_date)
filteredFlips(F, tab) ==
  SelectSeq(NewestFirst(F),
            LAMBDA f : IF tab = "sold" THEN ~FalsyText(f.sold_date)
                       ELSE FalsyText(f.sold_date))

\* selectedFlips.has(id)
Has(selected, id) == \E i \in 1..Len(selected) : selected[i] = id

\* toggleFlipSelection: the Set after delete(id) or add(id)
toggleFlipSelection(selected, id) ==
  IF Has(selected, id) THEN SelectSeq(selected, LAMBDA x : x # id)
  ELSE Append(selected, id)

\* the tables after await deleteFlip(flipId) for each of the ids in turn
RECURSIVE DeleteEach(_, _, _)
DeleteEach(F, L, ids) ==
  IF ids = <<>> THEN [flips |-> F, line_items |-> L]
  ELSE DeleteEach(deleteFlip(F, Head(ids)), deleteFlipCascade(L, Head(ids)), Tail(ids))

\* a bulk delete that resets the selection in a finally block
AfterBulkDelete_Finally(selected, mode, failed) ==
  [selectedFlips |-> <<>>, isSelectionMode |-> FALSE]

\* handleBulkDelete, the selection state it leaves: the two setters run
\* after the loop, inside the try block
AfterBulkDelete(selected, mode, failed) ==
  IF failed THEN [selectedFlips |-> selected, isSelectionMode |-> mode]
  ELSE [selectedFlips |-> <<>>, isSelectionMode |-> FALSE]

\* the tab buttons
setSelectedTab(tab) ==
  /\ selectedTab' = tab
  /\ lastCall' = Call("setSelectedTab", Null, Null)
  /\ UNCHANGED <<parserVars, asyncVars, storeVars, screen, sheetVars, ctCall, exportVars,
                 isSelectionMode, selectedFlips>>

\* the Select and Cancel buttons
toggleSelectionMode ==
  /\ isSelectionMode' = ~isSelectionMode
  /\ selectedFlips' = <<>>
  /\ lastCall' = Call("toggleSelectionMode", Null, Null)
  /\ UNCHANGED <<parserVars, asyncVars, storeVars, screen, sheetVars, ctCall, exportVars, selectedTab>>

\* a press on a listed flip in selection mode (outside of it the press
\* opens the flip sheet)
PressFlip(id) ==
  /\ isSelectionMode
  /\ \E i \in 1..Len(filteredFlips(db_flips, selectedTab)) :
       filteredFlips(db_flips, selectedTab)[i].id = id
  /\ selectedFlips' = toggleFlipSelection(selectedFlips, id)
  /\ lastCall' = Call("toggleFlipSelection", id, Null)
  /\ UNCHANGED <<parserVars, asyncVars, storeVars, screen, sheetVars, ctCall, exportVars,
                 selectedTab, isSelectionMode>>

\* a long press on a listed flip outside of selection mode
LongPressFlip(id) ==
  /\ ~isSelectionMode
  /\ \E i \in 1..Len(filteredFlips(db_flips, selectedTab)) :
       filteredFlips(db_flips, selectedTab)[i].id = id
  /\ isSelectionMode' = TRUE
  /\ selectedFlips' = toggleFlipSelection(selectedFlips, id)
  /\ lastCall' = Call("onLongPress", id, Null)
  /\ UNCHANGED <<parserVars, asyncVars, storeVars, screen, sheetVars, ctCall, exportVars, selectedTab>>

\* the Select All button, shown in selection mode when flips are listed
selectAllFlips ==
  /\ isSelectionMode
  /\ filteredFlips(db_flips, selectedTab) # <<>>
  /\ selectedFlips' = [i \in 1..Len(filteredFlips(db_flips, selectedTab)) |->
                         filteredFlips(db_flips, selectedTab)[i].id]
  /\ lastCall' = Call("selectAllFlips", Null, Null)
  /\ UNCHANGED <<parserVars, asyncVars, storeVars, screen, sheetVars, ctCall, exportVars,
                 selectedTab, isSelectionMode>>

\* the Deselect All button
deselectAllFlips ==
  /\ isSelectionMode
  /\ filteredFlips(db_flips, selectedTab) # <<>>
  /\ selectedFlips' = <<>>
  /\ lastCall' = Call("deselectAllFlips", Null, Null)
  /\ UNCHANGED <<parserVars, asyncVars, storeVars, screen, sheetVars, ctCall, exportVars,
                 selectedTab, isSelectionMode>>

\* the Delete button of selection mode, handleBulkDelete, confirmed in the
\* alert.  failAt = 0: every deleteFlip succeeds; failAt = k: the k-th
\* deleteFlip throws (the database rejects the statement)
handleBulkDelete(failAt) ==
  /\ isSelectionMode
  /\ failAt \in 0..Len(selectedFlips)
  /\ IF selectedFlips = <<>>
     THEN /\ lastCall' = Call("handleBulkDelete", selectedFlips, Returned("No Selection"))
          /\ UNCHANGED <<storeVars, isSelectionMode, selectedFlips>>
     ELSE LET deleted == IF failAt = 0 THEN selectedFlips
                         ELSE SubSeq(selectedFlips, 1, failAt - 1)
              tables  == DeleteEach(db_flips, db_line_items, deleted)
              after   == AfterBulkDelete(selectedFlips, isSelectionMode, failAt # 0)
          IN  /\ db_flips' = tables.flips
              /\ db_line_items' = tables.line_items
              /\ selectedFlips' = after.selectedFlips
              /\ isSelectionMode' = after.isSelectionMode
              /\ lastCall' = Call("handleBulkDelete", selectedFlips,
                                  IF failAt = 0 THEN Returned("Success")
                                  ELSE Thrown("Failed to delete some flips"))
              /\ UNCHANGED <<seq_flips, seq_line_items>>
  /\ UNCHANGED <<parserVars, asyncVars, screen, sheetVars, ctCall, exportVars, selectedTab>>

NextHome ==
  \/ \E f \in FlipInputs : ctxCreateFlip(f)
  \/ \E id \in 1..MaxFlips : ctxUpdateFlip(id, [sold_date |-> ISODate])
  \/ \E id \in 1..MaxFlips : ctxAddLineItem(id, Null)
  \/ \E tab \in {"open", "sold"} : setSelectedTab(tab)
  \/ toggleSelectionMode
  \/ \E id \in 1..MaxFlips : PressFlip(id)
  \/ \E id \in 1..MaxFlips : LongPressFlip(id)
  \/ selectAllFlips
  \/ deselectAllFlips
  \/ \E failAt \in 0..MaxFlips : handleBulkDelete(failAt)

SpecHome == InitContext /\ [][NextHome]_vars

(***************************************************************************)
(* The flip sheet with its handlers in flight.  An async handler runs up   *)
(* to its next await in one step; between two of its steps any other       *)
(* handler that is in flight may take steps, and the user may start a new  *)
(* one (no button of the sheet is disabled while isLoading is set).        *)
(* Nothing in the program orders the completion of two calls that were     *)
(* awaited by different handlers.  A handler keeps the flipId and the flip *)
(* of the render it was started from.                                      *)
(***************************************************************************)
MaxInFlight == 2

\* a handler in flight: op the handler, pc the call it awaits, fid and
\* loaded the flipId and flip of its closure, arg its argument, and the
\* locals newFlipId, flipData, itemsData, and the flip read by computeTotals
Handler(op, pc, fid, arg) ==
  [op |-> op, pc |-> pc, fid |-> fid, arg |-> arg, newFlipId |-> NoFlipId,
   flipData |-> Null, itemsData |-> <<>>, ctFlip |-> Null]

\* loadFlip up to its first await (setIsLoading is not modelled: nothing
\* reads isLoading)
loadFlipStart(op, fid) == Handler(op, "getFlipById", fid, Null)

RemoveAt(s, i) == SubSeq(s, 1, i - 1) \o SubSeq(s, i + 1, Len(s))

\* Home: a tap on a listed flip or on the + button; the sheet mounts and its
\* focus effect starts loadFlip
FocusFlipSheet(fid) ==
  /\ screen = "Home"
  /\ inFlight = <<>>
  /\ fid = NoFlipId \/ getFlipById(db_flips, fid) # Null
  /\ screen' = "FlipSheet"
  /\ SetSheet(fid, MountState(fid))
  /\ inFlight' = IF fid = NoFlipId THEN <<>> ELSE <<loadFlipStart("focus", fid)>>
  /\ UNCHANGED <<parserVars, exportVars, homeVars, storeVars, ctCall, flipTotals>>

\* the user goes back once nothing is in flight
LeaveFlipSheet ==
  /\ screen = "FlipSheet"
  /\ inFlight = <<>>
  /\ screen' = "Home"
  /\ SetSheet(NoFlipId, MountState(NoFlipId))
  /\ FocusHome(db_flips, db_line_items)
  /\ UNCHANGED <<parserVars, exportVars, homeVars, storeVars, ctCall, inFlight>>

\* saveFlip up to its first await, with the texts of the two price fields
saveFlipStart(buyPriceText, sellPriceText) ==
  /\ screen = "FlipSheet"
  /\ Len(inFlight) < MaxInFlight
  /\ buyPrice' = buyPriceText
  /\ sellPrice' = sellPriceText
  /\ isEditing' = TRUE
  /\ LET buyPriceNum  == parseFloat(buyPriceText)
         sellPriceNum == IF sellPriceText # <<>> THEN parseFloat(sellPriceText) ELSE Null
         prices       == [buy_price |-> buyPriceNum, sell_price |-> sellPriceNum]
     IN  inFlight' =
           IF Falsy(buyPriceNum) \/ NumLeqZero(buyPriceNum) THEN inFlight
           ELSE IF flipId # NoFlipId /\ flip # Null
           THEN Append(inFlight, Handler("saveFlip", "updateFlip", flipId, prices))
           ELSE Append(inFlight, Handler("saveFlip", "createFlip", flipId, prices))
  /\ UNCHANGED <<parserVars, exportVars, homeVars, storeVars, screen, ctCall, flipTotals,
                 flipId, flip, lineItems, totals, whatIfMode, whatIfSellPrice>>

\* handleAddLineItem up to its first await
handleAddLineItemStart(newItemAmount, newItemDescription) ==
  /\ screen = "FlipSheet"
  /\ Len(inFlight) < MaxInFlight
  /\ LET amount == parseFloat(newItemAmount)
     IN  inFlight' =
           IF \/ Trim(newItemAmount) = <<>> \/ Trim(newItemDescription) = <<>>
              \/ flipId = NoFlipId
              \/ isNaN(amount) \/ NumLeqZero(amount)
           THEN inFlight
           ELSE Append(inFlight,
                       Handler("handleAddLineItem", "addLineItem", flipId,
                               [flip_id  |-> flipId,
                                title    |-> Trim(newItemDescription),
                                amount   |-> amount,
                                category |-> Null]))
  /\ UNCHANGED <<parserVars, exportVars, homeVars, storeVars, screen, ctCall, flipTotals,
                 sheetVars>>

\* handleDeleteLineItem of a displayed item, confirmed, up to its first await
handleDeleteLineItemStart(itemId) ==
  /\ screen = "FlipSheet"
  /\ Len(inFlight) < MaxInFlight
  /\ \E i \in 1..Len(lineItems) : lineItems[i].id = itemId
  /\ inFlight' = Append(inFlight,
                        Handler("handleDeleteLineItem", "deleteLineItem", flipId, itemId))
  /\ UNCHANGED <<parserVars, exportVars, homeVars, storeVars, screen, ctCall, flipTotals,
                 sheetVars>>

\* the call that handler i awaits completes, and the handler runs on to its
\* next await or to its end
Resume(i) ==
  /\ i \in 1..Len(inFlight)
  /\ LET t    == inFlight[i]
         rest == RemoveAt(inFlight, i)
     IN  CASE t.pc = "createFlip" ->
                /\ seq_flips < MaxFlips
                /\ db_flips' = createFlip(db_flips, seq_flips + 1,
                                          FlipInput(Null, Null, Null, Null, Null,
                                                    t.arg.buy_price, t.arg.sell_price))
                /\ seq_flips' = seq_flips + 1
                /\ inFlight' = [inFlight EXCEPT ![i] =
                                  [t EXCEPT !.pc = "createFlip.refreshFlips",
                                            !.newFlipId = seq_flips + 1]]
                /\ UNCHANGED <<db_line_items, seq_line_items, sheetVars>>
           [] t.pc = "createFlip.refreshFlips" ->
                \* navigation.setParams, on which the focus effect starts
                \* loadFlip for the new flipId; setIsEditing(false); the
                \* loadFlip of the closure
                /\ flipId' = t.newFlipId
                /\ isEditing' = FALSE
                /\ inFlight' =
                     (IF t.fid = NoFlipId THEN rest
                      ELSE [inFlight EXCEPT ![i] = loadFlipStart("saveFlip", t.fid)])
                     \o <<loadFlipStart("focus", t.newFlipId)>>
                /\ UNCHANGED <<storeVars, flip, lineItems, totals, buyPrice, sellPrice,
                               whatIfMode, whatIfSellPrice>>
           [] t.pc = "updateFlip" ->
                /\ db_flips' = updateFlip(db_flips, t.fid, t.arg)
                /\ inFlight' = [inFlight EXCEPT ![i].pc = "updateFlip.refreshFlips"]
                /\ UNCHANGED <<db_line_items, seq_flips, seq_line_items, sheetVars>>
           [] t.pc = "updateFlip.refreshFlips" ->
                /\ isEditing' = FALSE
                /\ inFlight' = [inFlight EXCEPT ![i] = loadFlipStart("saveFlip", t.fid)]
                /\ UNCHANGED <<storeVars, flipId, flip, lineItems, totals, buyPrice,
                               sellPrice, whatIfMode, whatIfSellPrice>>
           [] t.pc = "addLineItem" ->
                /\ seq_line_items < MaxItems
                /\ db_line_items' = addLineItem(db_line_items, seq_line_items + 1, t.arg)
                /\ seq_line_items' = seq_line_items + 1
                /\ inFlight' = [inFlight EXCEPT ![i] =
                                  loadFlipStart("handleAddLineItem", t.fid)]
                /\ UNCHANGED <<db_flips, seq_flips, sheetVars>>
           [] t.pc = "deleteLineItem" ->
                /\ db_line_items' = deleteLineItem(db_line_items, t.arg)
                /\ inFlight' = [inFlight EXCEPT ![i] =
                                  loadFlipStart("handleDeleteLineItem", t.fid)]
                /\ UNCHANGED <<db_flips, seq_flips, seq_line_items, sheetVars>>
           [] t.pc = "getFlipById" ->
                /\ inFlight' = [inFlight EXCEPT ![i] =
                                  [t EXCEPT !.pc = "getLineItemsByFlip",
                                            !.flipData = getFlipById(db_flips, t.fid)]]
                /\ UNCHANGED <<storeVars, sheetVars>>
           [] t.pc = "getLineItemsByFlip" ->
                /\ inFlight' = [inFlight EXCEPT ![i] =
                                  [t EXCEPT !.pc = "computeTotals.getFlipById",
                                            !.itemsData =
                                               getLineItemsByFlip(db_line_items, t.fid)]]
                /\ UNCHANGED <<storeVars, sheetVars>>
           [] t.pc = "computeTotals.getFlipById" ->
                /\ inFlight' = [inFlight EXCEPT ![i] =
                                  [t EXCEPT !.pc = "computeTotals.getLineItemsByFlip",
                                            !.ctFlip = getFlipById(db_flips, t.fid)]]
                /\ UNCHANGED <<storeVars, sheetVars>>
           [] t.pc = "computeTotals.getLineItemsByFlip" ->
                \* computeTotals returns or throws, and loadFlip sets the
                \* state from what it has read
                LET totalsData ==
                      ctxComputeTotals(IF t.ctFlip = Null THEN <<>> ELSE <<t.ctFlip>>,
                                       db_line_items, t.fid)
                    st == IF IsThrown(totalsData) THEN SheetState
                          ELSE [(IF t.flipData = Null THEN SheetState
                                 ELSE [SheetState EXCEPT
                                         !.flip = t.flipData,
                                         !.buyPrice = NumToString(t.flipData.buy_price),
                                         !.sellPrice = OptToString(t.flipData.sell_price),
                                         !.whatIfSellPrice =
                                            OptToString(t.flipData.sell_price)])
                                EXCEPT !.lineItems = t.itemsData, !.totals = totalsData]
                IN  /\ SetSheet(flipId, st)
                    /\ inFlight' = rest
                    /\ UNCHANGED storeVars
  /\ UNCHANGED <<parserVars, exportVars, homeVars, screen, ctCall, flipTotals>>

NextSheet ==
  \/ \E fid \in {NoFlipId} \cup (1..MaxFlips) : FocusFlipSheet(fid)
  \/ LeaveFlipSheet
  \/ \E b \in BuyTexts, t \in SellTexts : saveFlipStart(b, t)
  \/ \E a \in AmountTexts, d \in DescriptionTexts : handleAddLineItemStart(a, d)
  \/ \E itemId \in 1..MaxItems : handleDeleteLineItemStart(itemId)
  \/ \E i \in 1..(MaxInFlight + 1) : Resume(i)

SpecSheet == Init /\ [][NextSheet]_vars

(***************************************************************************)
(* The records of the store under everything that writes them: the handlers *)
(* of the flip sheet with every kind of text in the form fields, and the   *)
(* context's loadSampleData.  Each handler runs to its end before the next *)
(* one starts.                                                             *)
(***************************************************************************)
\* the sample flip of loadSampleData
sampleFlip ==
  [year       |-> Num(2011),
   make       |-> <<"B", "M", "W">>,
   model      |-> <<"3", "2", "8", "i">>,
   vin        |-> Null,
   miles      |-> Num(155000),
   buy_price  |-> Num(3500),
   sell_price |-> Num(6200),
   sold_date  |-> ISODate]

\* the sample line items of loadSampleData
sampleItems ==
  <<[title |-> <<"w", "a", "t", "e", "r", " ", "p", "u", "m", "p">>,
     amount |-> Num(320), category |-> Parts],
    [title |-> <<"t", "h", "e", "r", "m", "o", "s", "t", "a", "t">>,
     amount |-> Num(95), category |-> Parts],
    [title |-> <<"O", "F", "H", "G">>,
     amount |-> Num(45), category |-> Parts],
    [title |-> <<"c", "o", "o", "l", "i", "n", "g", " ", "s", "y", "s", "t", "e", "m", " ", "l", "a", "b", "o", "r">>,
     amount |-> Num(350), category |-> Labor],
    [title |-> <<"t", "i", "t", "l", "e", "/", "t", "a", "x">>,
     amount |-> Num(120), category |-> Fees],
    [title |-> <<"l", "i", "s", "t", "i", "n", "g", " ", "f", "e", "e", "s">>,
     amount |-> Num(100), category |-> Fees]>>

\* the loop of loadSampleData: the sample items inserted under the new flip
RECURSIVE AddSampleItems(_, _, _, _)
AddSampleItems(L, items, newFlipId, lastId) ==
  IF items = <<>> THEN L
  ELSE AddSampleItems(
         addLineItem(L, lastId + 1,
                     [flip_id  |-> newFlipId,
                      title    |-> items[1].title,
                      amount   |-> items[1].amount,
                      category |-> items[1].category]),
         Tail(items), newFlipId, lastId + 1)

\* FlipsContext.loadSampleData
loadSampleData ==
  /\ screen = "Home"
  /\ seq_flips < MaxFlips
  /\ db_flips' = createFlip(db_flips, seq_flips + 1, sampleFlip)
  /\ seq_flips' = seq_flips + 1
  /\ db_line_items' = AddSampleItems(db_line_items, sampleItems, seq_flips + 1,
                                     seq_line_items)
  /\ seq_line_items' = seq_line_items + Len(sampleItems)
  /\ lastCall' = Call("loadSampleData", seq_flips + 1, Returned(Null))
  /\ UNCHANGED <<parserVars, asyncVars, screen, sheetVars, ctCall, exportVars,
                 selectedTab, isSelectionMode, selectedFlips>>

\* texts for the buy price field: none, not a number, zero, negative,
\* positive
BuyPriceTexts == {<<>>, <<"x">>, <<"0">>, <<"-", "1">>, <<"2">>}

\* texts for the amount field of a new expense: none, blank, not a number,
\* zero, negative, positive
NewItemAmountTexts == {<<>>, <<" ">>, <<"x">>, <<"0">>, <<"-", "1">>, <<"1">>}

\* texts for the description field of a new expense: none, blank, a word
\* with a blank before it
NewItemDescriptionTexts == {<<>>, <<" ">>, <<" ", "x">>}

NextRecords ==
  \/ \E fid \in {NoFlipId} \cup (1..MaxFlips) : OpenFlipSheet(fid)
  \/ GoBack
  \/ \E b \in BuyPriceTexts : saveFlip(b, <<>>)
  \/ \E a \in NewItemAmountTexts, d \in NewItemDescriptionTexts : handleAddLineItem(a, d)
  \/ \E itemId \in 1..MaxItems : handleDeleteLineItem(itemId)
  \/ handleMarkSold
  \/ handleDuplicate
  \/ handleDelete
  \/ loadSampleData

SpecRecords == Init /\ [][NextRecords]_vars

(***************************************************************************)
(* C1  computeTotals                                                       *)
(***************************************************************************)
\* T: the amounts of the rows of line_items that belong to flip id, summed
\* row by row from the first
RECURSIVE LedgerTotal(_, _)
LedgerTotal(L, id) ==
  IF L = <<>> THEN Num(0)
  ELSE NumAdd(IF Head(L).flip_id = id THEN Head(L).amount ELSE Num(0),
              LedgerTotal(Tail(L), id))

\* S: the sell price of a row of flips, 0 when it is unset
SellPriceOrZero(f) == IF f.sell_price = Null THEN Num(0) ELSE f.sell_price

\* C1: for every existing flip with buy price B, sell price S (0 when
\* unset) and line items summing to T, computeTotals returns totalCost = T,
\* profit = S - (B + T), and roi = profit / (B + T) when B + T > 0 and 0
\* otherwise.
C1_ComputeTotals ==
  ctCall # Null =>
    \A i \in 1..Len(db_flips) :
      db_flips[i].id = ctCall.flipId =>
        LET B == db_flips[i].buy_price
            S == SellPriceOrZero(db_flips[i])
            T == LedgerTotal(db_line_items, ctCall.flipId)
            r == ctCall.outcome
        IN  /\ ~IsThrown(r)
            /\ r.totalCost = T
            /\ r.profit = NumSub(S, NumAdd(B, T))
            /\ IF NumGtZero(NumAdd(B, T))
               THEN NumMul(r.roi, NumAdd(B, T)) = r.profit
               ELSE r.roi = Num(0)

\* bought for 2, one expense of 1, sold for 4, while another flip has
\* expenses of its own
C1_Witness ==
  /\ ctCall # Null
  /\ ctCall.outcome = [totalCost |-> Num(1), profit |-> Num(1), roi |-> Rat(1, 3)]
  /\ \E k \in 1..Len(db_line_items) : db_line_items[k].flip_id # ctCall.flipId

(***************************************************************************)
(* C2  computeTotals of a flip that does not exist                         *)
(***************************************************************************)
\* C2: a call of computeTotals with an id that no flip has raises the error
\* 'Flip not found', which reaches the caller as it is, and the call leaves
\* the store as it was.
C2_FlipNotFound ==
  /\ [](ctCall # Null =>
          ((\A i \in 1..Len(db_flips) : db_flips[i].id # ctCall.flipId)
             => ctCall.outcome = Thrown("Flip not found")))
  /\ [][(ctCall = Null /\ ctCall' # Null) => storeVars' = storeVars]_vars

\* the flip was there once and has been deleted
C2_Witness ==
  /\ ctCall # Null
  /\ ctCall.flipId <= seq_flips
  /\ \A i \in 1..Len(db_flips) : db_flips[i].id # ctCall.flipId
  /\ ctCall.outcome = Thrown("Flip not found")

(***************************************************************************)
(* C3  What-if totals                                                      *)
(***************************************************************************)
\* the hypothetical sell price S' typed into the what-if field
WhatIfInput == parseFloat(whatIfSellPrice)

\* C3: with a hypothetical sell price S' entered, the what-if totals of the
\* flip on the sheet are exactly what computeTotals gives for the same flip
\* with its sell price replaced by S': B and T are those of the store,
\* whatever S' is; and when S' is the flip's real sell price (or nothing is
\* entered) the what-if totals are the real totals.
C3_WhatIfTotals ==
  (screen = "FlipSheet" /\ flip # Null /\ whatIfMode) =>
    /\ whatIfSellPrice # <<>> =>
         whatIfTotals = computeTotals(updateFlip(db_flips, flipId, [sell_price |-> WhatIfInput]),
                                      db_line_items, flipId)
    /\ whatIfTotals.totalCost = LedgerTotal(db_line_items, flipId)
    /\ NumAdd(NumAdd(whatIfTotals.profit, whatIfTotals.totalCost),
              getFlipById(db_flips, flipId).buy_price)
         = (IF whatIfSellPrice # <<>> THEN WhatIfInput
            ELSE SellPriceOrZero(getFlipById(db_flips, flipId)))
    /\ (whatIfSellPrice = <<>>
          \/ WhatIfInput = SellPriceOrZero(getFlipById(db_flips, flipId)))
         => whatIfTotals = computeTotals(db_flips, db_line_items, flipId)

\* bought for 2, one expense of 1, sold for 4, what if it had sold for 6
C3_Witness ==
  /\ screen = "FlipSheet"
  /\ flip # Null
  /\ whatIfMode
  /\ whatIfSellPrice = <<"6">>
  /\ flip.sell_price = Num(4)
  /\ totals = [totalCost |-> Num(1), profit |-> Num(1), roi |-> Rat(1, 3)]
  /\ whatIfTotals = [totalCost |-> Num(1), profit |-> Num(3), roi |-> Num(1)]

(***************************************************************************)
(* Reference semantics of arithmetic expressions, by the grammar           *)
(*   expr ::= term | expr + term | expr - term                             *)
(*   term ::= literal | term times literal | term over literal             *)
(*   literal ::= digits [. [digits]] | . digits                            *)
(* read from the rightmost operator of the lowest precedence, which is     *)
(* what left associativity means.  A division by zero has no value.        *)
(***************************************************************************)
Operators == {"+", "-", "*", "/"}

LastIndexIn(s, S) == MaxOf({0} \cup {i \in 1..Len(s) : s[i] \in S})

IsLiteral(t) ==
  /\ \A i \in 1..Len(t) : t[i] \in Digits \cup {"."}
  /\ Cardinality({i \in 1..Len(t) : t[i] = "."}) <= 1
  /\ \E i \in 1..Len(t) : t[i] \in Digits

LiteralValue(t) ==
  LET dots == {i \in 1..Len(t) : t[i] = "."}
      dp   == IF dots = {} THEN Len(t) + 1 ELSE CHOOSE i \in dots : TRUE
      ds   == SubSeq(t, 1, dp - 1) \o SubSeq(t, dp + 1, Len(t))
      fr   == IF dots = {} THEN 0 ELSE Len(t) - dp
  IN  Rat(DigitsValue(ds), Pow10(fr))

RECURSIVE WellFormedTerm(_)
WellFormedTerm(t) ==
  LET k == LastIndexIn(t, {"*", "/"})
  IN  IF k = 0 THEN IsLiteral(t)
      ELSE WellFormedTerm(SubSeq(t, 1, k - 1)) /\ IsLiteral(SubSeq(t, k + 1, Len(t)))

RECURSIVE WellFormedExpr(_)
WellFormedExpr(e) ==
  LET k == LastIndexIn(e, {"+", "-"})
  IN  IF k = 0 THEN WellFormedTerm(e)
      ELSE WellFormedExpr(SubSeq(e, 1, k - 1)) /\ WellFormedTerm(SubSeq(e, k + 1, Len(e)))

\* the Number a term denotes: its literals multiplied and divided from left
\* to right
RECURSIVE TermValue(_)
TermValue(t) ==
  ValueOf({
    IF k = 0 THEN ToBinary64(LiteralValue(s))
    ELSE ValueOf({
           IF l = Null THEN Null
           ELSE IF s[k] = "*" THEN Mul64(l, r)
           ELSE IF IsZero64(r) THEN Null
           ELSE Div64(l, r) :
           l \in {TermValue(SubSeq(s, 1, k - 1))},
           r \in {ToBinary64(LiteralValue(SubSeq(s, k + 1, Len(s))))}}) :
    s \in {t}, k \in {LastIndexIn(t, {"*", "/"})}})

\* the Number an expression denotes: its terms added and subtracted from
\* left to right
RECURSIVE ExprValue(_)
ExprValue(e) ==
  ValueOf({
    IF k = 0 THEN TermValue(s)
    ELSE ValueOf({
           IF l = Null \/ r = Null THEN Null
           ELSE IF s[k] = "+" THEN Add64(l, r)
           ELSE Sub64(l, r) :
           l \in {ExprValue(SubSeq(s, 1, k - 1))},
           r \in {TermValue(SubSeq(s, k + 1, Len(s)))}}) :
    s \in {e}, k \in {LastIndexIn(e, {"+", "-"})}})

\* the evaluator's last step applied to the value v, Null if there is none
Rounded(v) == ValueOf({IF x = Null THEN Null ELSE RoundToCents(x) : x \in {v}})

\* v has a value that the quick entry accepts once it is rounded
RoundsPositive(v) == \E a \in {Rounded(v)} : a # Null /\ ~LeqZero64(a)

\* the same in the rational numbers, without any rounding in between
RECURSIVE ExactTermValue(_)
ExactTermValue(t) ==
  LET k == LastIndexIn(t, {"*", "/"})
  IN  IF k = 0 THEN LiteralValue(t)
      ELSE LET l == ExactTermValue(SubSeq(t, 1, k - 1))
               r == LiteralValue(SubSeq(t, k + 1, Len(t)))
           IN  IF l = Null THEN Null
               ELSE IF t[k] = "*" THEN NumMul(l, r)
               ELSE IF r = Num(0) THEN Null
               ELSE NumDiv(l, r)

RECURSIVE ExactExprValue(_)
ExactExprValue(e) ==
  LET k == LastIndexIn(e, {"+", "-"})
  IN  IF k = 0 THEN ExactTermValue(e)
      ELSE LET l == ExactExprValue(SubSeq(e, 1, k - 1))
               r == ExactTermValue(SubSeq(e, k + 1, Len(e)))
           IN  IF l = Null \/ r = Null THEN Null
               ELSE IF e[k] = "+" THEN NumAdd(l, r)
               ELSE NumSub(l, r)

\* the rational v to the nearest cent, a half cent going up:
\* floor(100 * v + 1/2) / 100
HalfUpCents(v) == Rat((200 * v[1] + v[2]) \div (2 * v[2]), 100)

LeadingSign(e) == Len(e) >= 1 /\ e[1] \in {"+", "-"}

TrailingOperator(e) == Len(e) >= 1 /\ e[Len(e)] \in Operators

AdjacentOperators(e) ==
  \E i \in 1..(Len(e) - 1) : e[i] \in Operators /\ e[i + 1] \in Operators

\* e divides by a literal whose value is zero
DividesByZeroLiteral(e) ==
  \E i \in 1..Len(e) :
    /\ e[i] = "/"
    /\ LET n   == RunAfter(e, i, Digits \cup {"."})
           lit == SubSeq(e, i + 1, i + n)
       IN  IsLiteral(lit) /\ LiteralValue(lit) = Num(0)

IsSuccess(r) == DOMAIN r = {"amount", "title"}

IsFailure(r) == DOMAIN r = {"error"}

\* the outcome the quick entry owes to an expression of value v and a title
IsOutcomeOf(r, v, title) ==
  \E a \in {Rounded(v)} :
    IF a # Null /\ ~LeqZero64(a)
    THEN IsSuccess(r) /\ r.amount = a /\ r.title = title
    ELSE r = Failure(ErrInvalidAmount)

\* group 1 of the first pattern that matches s, NoMatch if none does
MatchedExpression(s) ==
  IF dollarPattern(s) # NoMatch THEN dollarPattern(s)[1]
  ELSE IF numberPattern(s) # NoMatch THEN numberPattern(s)[1]
  ELSE IF simplePattern(s) # NoMatch THEN simplePattern(s)[1]
  ELSE NoMatch

(***************************************************************************)
(* C4  Labeled form                                                        *)
(***************************************************************************)
\* where the arithmetic characters after the optional "$" end
ArithEnd(s) ==
  LET a == IF Len(s) >= 1 /\ s[1] = "$" THEN 1 ELSE 0
  IN  a + RunAfter(s, a, ArithChars)

\* the last hyphen among the arithmetic characters of s, 0 if there is none
LastHyphen(s) ==
  MaxOf({0} \cup {h \in 1..ArithEnd(s) : s[h] = "-"})

\* s is [$] E - T: a well-formed expression, a hyphen with optional white
\* space around it, and a title that starts with a non-arithmetic character
IsLabeledForm(s) ==
  LET a == IF Len(s) >= 1 /\ s[1] = "$" THEN 1 ELSE 0
      h == LastHyphen(s)
  IN  /\ ArithEnd(s) < Len(s)
      /\ \A t \in (ArithEnd(s) + 1)..Len(s) : IsDotChar(s[t])
      /\ h > a
      /\ \A t \in (h + 1)..ArithEnd(s) : IsSpace(s[t])
      /\ WellFormedExpr(RemoveSpaces(SubSeq(s, a + 1, h - 1)))

LabeledE(s) ==
  RemoveSpaces(SubSeq(s, (IF s[1] = "$" THEN 2 ELSE 1), LastHyphen(s) - 1))

LabeledT(s) == SubSeq(s, ArithEnd(s) + 1, Len(s))

\* C4: for an input [$] E - T, T starting with a non-arithmetic character,
\* parseLineItem returns amount = the value of E (to the cent) and title = T
\* when that value is positive, and 'Invalid amount' when it is not; the
\* last hyphen before the title is the separator, so earlier hyphens are
\* subtractions inside E.
C4_LabeledForm ==
  (qeResult # Pending /\ IsLabeledForm(Trim(qeInput))) =>
    IsOutcomeOf(qeResult, ExprValue(LabeledE(Trim(qeInput))), LabeledT(Trim(qeInput)))

C4_Witness ==
  /\ qeInput = ExNewBattery
  /\ IsLabeledForm(ExNewBattery)
  /\ qeResult = Success(ToBinary64(Num(125)), <<"n", "e", "w", " ", "b", "a", "t", "t", "e", "r", "y">>)

(***************************************************************************)
(* C5  Spaced form                                                         *)
(***************************************************************************)
\* s is E white space T, as the specification words it: E a well-formed expression
\* that ends right before position w, T the non-empty rest, no hyphen in s
IsSpacedAt(s, w) ==
  /\ IsSpace(s[w])
  /\ WellFormedExpr(SubSeq(s, 1, w - 1))
  /\ Trim(SubSeq(s, w + 1, Len(s))) # <<>>
  /\ \A t \in 1..Len(s) : s[t] # "-" /\ IsDotChar(s[t])

\* C5 as stated: for every way to read the input as E, white space, T with
\* no hyphen, the result is amount = value of E and title = T (E of
\* positive value).
C5_AsStated ==
  qeResult # Pending =>
    \A w \in 2..(Len(Trim(qeInput)) - 1) :
      (IsSpacedAt(Trim(qeInput), w)
         /\ RoundsPositive(ExprValue(SubSeq(Trim(qeInput), 1, w - 1)))) =>
        IsOutcomeOf(qeResult, ExprValue(SubSeq(Trim(qeInput), 1, w - 1)),
                    Trim(SubSeq(Trim(qeInput), w + 1, Len(Trim(qeInput)))))

\* s is E white space T where T starts with a non-arithmetic character and
\* E, the arithmetic characters before T, has no hyphen and is a well-formed
\* expression once its white space is removed
IsSpacedForm(s) ==
  LET n == RunAfter(s, 0, ArithChars)
  IN  /\ 1 <= n /\ n < Len(s)
      /\ \A t \in (n + 1)..Len(s) : IsDotChar(s[t])
      /\ IsSpace(s[n])
      /\ \A t \in 1..n : s[t] # "-"
      /\ WellFormedExpr(RemoveSpaces(SubSeq(s, 1, n)))

SpacedE(s) == RemoveSpaces(SubSeq(s, 1, RunAfter(s, 0, ArithChars)))

SpacedT(s) == SubSeq(s, RunAfter(s, 0, ArithChars) + 1, Len(s))

\* C5, amended: for an input E white space T where T starts with a
\* non-arithmetic character and E (all the arithmetic characters before T,
\* white space inside it ignored) has no hyphen, parseLineItem returns
\* amount = the value of E (to the cent) and title = T when that value is
\* positive, and 'Invalid amount' when it is not.
C5_SpacedForm ==
  (qeResult # Pending /\ IsSpacedForm(Trim(qeInput))) =>
    IsOutcomeOf(qeResult, ExprValue(SpacedE(Trim(qeInput))), SpacedT(Trim(qeInput)))

C5_Witness ==
  /\ qeInput = ExOilFilter
  /\ IsSpacedForm(ExOilFilter)
  /\ qeResult = Success(ToBinary64(Num(45)), <<"o", "i", "l", " ", "f", "i", "l", "t", "e", "r">>)

(***************************************************************************)
(* C6  The grammars are tried in order and the first that matches decides  *)
(***************************************************************************)
\* whether s can be split as each pattern demands at all
LabeledMatches(s) ==
  LET a == IF Len(s) >= 1 /\ s[1] = "$" THEN 1 ELSE 0
  IN  \E h \in (a + 2)..(Len(s) - 1) :
        /\ s[h] = "-"
        /\ \A t \in (a + 1)..(h - 1) : IsArithChar(s[t])
        /\ \A t \in (h + 1)..Len(s) : IsDotChar(s[t])

SpacedMatches(s) ==
  \E w \in 2..(Len(s) - 1) :
    /\ IsSpace(s[w])
    /\ \A t \in 1..(w - 1) : IsArithChar(s[t])
    /\ \A t \in (w + 1)..Len(s) : IsDotChar(s[t])

FallbackMatches(s) ==
  /\ Len(s) >= 1
  /\ IsArithChar(s[1])
  /\ \A t \in 2..Len(s) : IsDotChar(s[t])

\* what a grammar that matched makes of its expression and title
Decided(expr, title) ==
  ValueOf({IF amount = Null \/ LeqZero64(amount) THEN Failure(ErrInvalidAmount)
           ELSE Success(amount, title) :
           amount \in {evaluateMath(expr)}})

\* the labeled grammar splits at the last hyphen that leaves a title
LabeledDecision(s) ==
  LET a == IF s[1] = "$" THEN 1 ELSE 0
      h == MaxOf({k \in (a + 2)..(Len(s) - 1) :
                    s[k] = "-" /\ \A t \in (a + 1)..(k - 1) : IsArithChar(s[t])})
  IN  Decided(SubSeq(s, a + 1, h - 1), Trim(SubSeq(s, h + 1, Len(s))))

\* the spaced grammar splits at the last white space that leaves a title
SpacedDecision(s) ==
  LET w == MaxOf({k \in 2..(Len(s) - 1) :
                    IsSpace(s[k]) /\ \A t \in 1..(k - 1) : IsArithChar(s[t])})
  IN  Decided(SubSeq(s, 1, w - 1), Trim(SubSeq(s, w + 1, Len(s))))

\* the fallback grammar takes every leading arithmetic character
FallbackDecision(s) ==
  LET n == RunAfter(s, 0, ArithChars)
  IN  Decided(SubSeq(s, 1, n),
              IF n = Len(s) THEN <<"E", "x", "p", "e", "n", "s", "e">>
              ELSE SubSeq(s, n + 1, Len(s)))

\* C6: the labeled, spaced and fallback grammars are tried in this order and
\* the first whose pattern matches decides the result alone: a later grammar
\* is consulted only when every earlier one fails to match, and when the
\* matching grammar's amount is invalid the result is 'Invalid amount' even
\* if a later grammar would have produced a valid amount.
C6_FirstMatchDecides ==
  (qeResult # Pending /\ Trim(qeInput) # <<>>) =>
    qeResult = IF LabeledMatches(Trim(qeInput)) THEN LabeledDecision(Trim(qeInput))
               ELSE IF SpacedMatches(Trim(qeInput)) THEN SpacedDecision(Trim(qeInput))
               ELSE IF FallbackMatches(Trim(qeInput)) THEN FallbackDecision(Trim(qeInput))
               ELSE Failure(ErrCouldNotParse)

\* "0-1+2 x": the labeled grammar matches with the invalid amount 0, the
\* spaced grammar would have made it 1
C6_Witness ==
  /\ qeInput = ExLaterGrammar
  /\ LabeledMatches(ExLaterGrammar)
  /\ SpacedMatches(ExLaterGrammar)
  /\ IsSuccess(SpacedDecision(ExLaterGrammar))
  /\ qeResult = Failure(ErrInvalidAmount)

(***************************************************************************)
(* C7  Precedence and associativity of the evaluator                       *)
(***************************************************************************)
\* C7: with white space ignored, evaluateMath gives every well-formed
\* expression of decimal literals joined by + - * / the value of standard
\* precedence (* and / bind tighter than + and -, equal precedence
\* associates left), which it returns to the nearest cent; an expression
\* with a leading sign, a trailing operator or two adjacent operators is
\* rejected.
C7_StandardPrecedence ==
  emResult # Pending =>
    /\ (WellFormedExpr(RemoveSpaces(qeInput)) /\ ExprValue(RemoveSpaces(qeInput)) # Null) =>
         (emResult # Null /\ emResult = Rounded(ExprValue(RemoveSpaces(qeInput))))
    /\ (\/ LeadingSign(RemoveSpaces(qeInput))
        \/ TrailingOperator(RemoveSpaces(qeInput))
        \/ AdjacentOperators(RemoveSpaces(qeInput))) => emResult = Null

C7_Witness ==
  /\ qeInput = <<"1", "0", "-", "2", "-", "3">>
  /\ WellFormedExpr(qeInput)
  /\ emResult # Pending
  /\ emResult = ToBinary64(Num(5))

(***************************************************************************)
(* C8  Division by zero                                                    *)
(***************************************************************************)
\* C8: every input whose matched arithmetic expression divides by a literal
\* that parses to zero gets the failure 'Invalid amount', and no success
\* carries an amount that is infinite or NaN.
C8_DivisionByZero ==
  qeResult # Pending =>
    /\ (/\ Trim(qeInput) # <<>>
        /\ MatchedExpression(Trim(qeInput)) # NoMatch
        /\ DividesByZeroLiteral(RemoveSpaces(MatchedExpression(Trim(qeInput)))))
         => qeResult = Failure(ErrInvalidAmount)
    /\ IsSuccess(qeResult) => qeResult.amount.cls = "finite"

C8_Witness ==
  /\ qeInput = ExDivZero
  /\ DividesByZeroLiteral(RemoveSpaces(MatchedExpression(ExDivZero)))
  /\ qeResult = Failure(ErrInvalidAmount)

(***************************************************************************)
(* C9  Failure kinds and their messages                                    *)
(***************************************************************************)
\* the kind of validation failure an input falls under, "none" if it is
\* owed a success or falls under none of the kinds
FailureKind(input) ==
  LET s == Trim(input)
      e == RemoveSpaces(MatchedExpression(s))
  IN  IF s = <<>> THEN "empty input"
      ELSE IF MatchedExpression(s) = NoMatch THEN "unparseable input"
      ELSE IF DividesByZeroLiteral(e) THEN "division by zero"
      ELSE IF e = <<>> \/ LeadingSign(e) \/ TrailingOperator(e) \/ AdjacentOperators(e)
           THEN "malformed or empty expression"
      ELSE IF WellFormedExpr(e) /\ ~RoundsPositive(ExprValue(e)) THEN "non-positive amount"
      ELSE "none"

C10_EmptyInput ==
  (qeResult # Pending /\ \A t \in 1..Len(qeInput) : IsSpace(qeInput[t])) =>
    (qeResult = Failure(ErrEmptyInput) /\ DOMAIN qeResult = {"error"})

C10_Witness ==
  /\ qeInput = ExBlank
  /\ qeResult = Failure(ErrEmptyInput)

(***************************************************************************)
(* C11  Rounding to cents                                                  *)
(***************************************************************************)
\* the expression that parseLineItem hands to evaluateMath for the input,
\* without its white space
QuickEntryExpression == RemoveSpaces(MatchedExpression(Trim(qeInput)))

\* C11: every amount returned by a successful parse is the exact value of
\* the matched expression rounded to two decimal places, a half cent going
\* up: floor(100 * value + 1/2) / 100, a whole number of cents.
C11_HalfUpRounding ==
  (/\ IsSuccess(qeResult)
   /\ WellFormedExpr(QuickEntryExpression)
   /\ ExactExprValue(QuickEntryExpression) # Null) =>
    qeResult.amount = ToBinary64(HalfUpCents(ExactExprValue(QuickEntryExpression)))

(***************************************************************************)
(* C12  A success has a positive amount and a title                        *)
(***************************************************************************)
OneCent == ToBinary64(Rat(1, 100))

\* x >= y, for finite x and y
Geq64(x, y) == \E d \in {Sub64(x, y)} : d.cls = "finite" /\ ~d.neg

ListedAt(text, title) ==
  {i \in 1..Len(text) :
     \/ text[i].template = "expense" /\ text[i].cells[2] = title
     \/ text[i].template = "item" /\ text[i].cells[1] = title}

\* the sum of the amounts of the items carrying the category
RECURSIVE SumOfCategory(_, _)
SumOfCategory(items, category) ==
  IF items = <<>> THEN Num(0)
  ELSE NumAdd(IF Head(items).category = category THEN Head(items).amount ELSE Num(0),
              SumOfCategory(Tail(items), category))

\* every item is listed once, and two items of one category are listed in
\* their input order
StableWithinCategory(text, items) ==
  \A a, b \in 1..Len(items) :
    /\ Cardinality(ListedAt(text, items[a].title)) = 1
    /\ (a < b /\ items[a].category = items[b].category) =>
         \A i \in ListedAt(text, items[a].title), j \in ListedAt(text, items[b].title) :
           i < j

\* every category with items has one subtotal line, which shows the sum of
\* the items of that category, and a category without items has none
SubtotalsOfOwnItems(text, template, items) ==
  \A k \in 1..Len(categories) :
    LET at == {i \in 1..Len(text) :
                 text[i].template = template /\ text[i].cells[1] = categories[k]}
    IN  IF \E a \in 1..Len(items) : items[a].category = categories[k]
        THEN /\ Cardinality(at) = 1
             /\ \A i \in at :
                  text[i].cells[2] = formatCurrency(SumOfCategory(items, categories[k]))
        ELSE at = {}

\* the lines of the complete tax report about its k-th vehicle
VehicleSection(text, k) ==
  LET first == CHOOSE i \in 1..Len(text) :
                 text[i].template = "VEHICLE" /\ text[i].cells[1] = k
      last  == CHOOSE j \in first..Len(text) :
                 /\ text[j].template = "end of vehicle"
                 /\ \A h \in first..(j - 1) : text[h].template # "end of vehicle"
  IN  SubSeq(text, first, last)

\* C13: in the itemized listing of a tax report (the detailed expenses of
\* the single-flip report, the expense breakdown of each vehicle in the
\* complete report) the items of one category appear in their input order,
\* and the subtotal of a category is the sum of exactly its items.
C13_CategoryGrouping ==
  exported # Pending =>
    /\ exported.request[1] = "tax report" =>
         /\ StableWithinCategory(exported.text, exported.data.lineItems)
         /\ SubtotalsOfOwnItems(exported.text, "category total", exported.data.lineItems)
    /\ exported.request[1] = "complete tax report" =>
         \A k \in 1..Len(exported.data.flips) :
           /\ StableWithinCategory(VehicleSection(exported.text, k),
                                   exported.data.flips[k].lineItems)
           /\ SubtotalsOfOwnItems(VehicleSection(exported.text, k), "category",
                                  exported.data.flips[k].lineItems)

\* [{A, parts}, {B, labor}, {C, parts}]: A is listed before C, then B, and
\* the parts subtotal is A + C = 1 + 4
C13_Witness ==
  /\ exported # Pending
  /\ exported.request = <<"tax report", 1>>
  /\ exported.data.lineItems = ExGroupingItems
  /\ \E i, j, h \in 1..Len(exported.text) :
       /\ i < j /\ j < h
       /\ ListedAt(exported.text, <<"A">>) = {i}
       /\ ListedAt(exported.text, <<"C">>) = {j}
       /\ ListedAt(exported.text, <<"B">>) = {h}
  /\ \E i \in 1..Len(exported.text) :
       exported.text[i] = Line("category total", <<Parts, formatCurrency(Num(5))>>)

(***************************************************************************)
(* C14  The fixed order of the categories                                  *)
(***************************************************************************)
\* the place of a category in the listing: parts, labor, fees, misc, and
\* then the items without a category
CategoryRank(category) ==
  IF category = Parts THEN 1
  ELSE IF category = Labor THEN 2
  ELSE IF category = Fees THEN 3
  ELSE IF category = Misc THEN 4
  ELSE 5

InCategoryOrder(text, items) ==
  \A a, b \in 1..Len(items) :
    /\ Cardinality(ListedAt(text, items[a].title)) = 1
    /\ CategoryRank(items[a].category) < CategoryRank(items[b].category) =>
         \A i \in ListedAt(text, items[a].title), j \in ListedAt(text, items[b].title) :
           i < j

\* C14: in the itemized listing of both tax reports (per vehicle in the
\* complete report), whatever the input order, parts items come before
\* labor items, these before fees items, these before misc items, and the
\* items without a category come after every item with one.
C14_CategoryOrder ==
  exported # Pending =>
    /\ exported.request[1] = "tax report" =>
         InCategoryOrder(exported.text, exported.data.lineItems)
    /\ exported.request[1] = "complete tax report" =>
         \A k \in 1..Len(exported.data.flips) :
           InCategoryOrder(VehicleSection(exported.text, k),
                           exported.data.flips[k].lineItems)

\* a flip whose first item has no category and whose second is a labor
\* item: the complete report lists the second before the first
C14_Witness ==
  /\ exported # Pending
  /\ exported.request[1] = "complete tax report"
  /\ \E k \in 1..Len(exported.data.flips) :
       LET items == exported.data.flips[k].lineItems
           text  == VehicleSection(exported.text, k)
       IN  /\ Len(items) = 2
           /\ items[1].category = Null
           /\ items[2].category = Labor
           /\ \E i, j \in 1..Len(text) :
                /\ j < i
                /\ ListedAt(text, items[1].title) = {i}
                /\ ListedAt(text, items[2].title) = {j}

(***************************************************************************)
(* C15  Profit and loss of the aggregate summary                           *)
(***************************************************************************)
\* max(x, 0)
PositivePart(x) == IF NumGtZero(x) THEN x ELSE Num(0)

\* the sum of max(profit, 0) over the flips
RECURSIVE SumOfGains(_)
SumOfGains(flipsData) ==
  IF flipsData = <<>> THEN Num(0)
  ELSE NumAdd(PositivePart(Head(flipsData).totals.profit), SumOfGains(Tail(flipsData)))

\* the sum of max(-profit, 0) over the flips
RECURSIVE SumOfLosses(_)
SumOfLosses(flipsData) ==
  IF flipsData = <<>> THEN Num(0)
  ELSE NumAdd(PositivePart(NumNeg(Head(flipsData).totals.profit)),
              SumOfLosses(Tail(flipsData)))

\* C15: in the aggregate summary total profit is the sum of max(profit, 0)
\* over all flips, total loss the sum of max(-profit, 0), and net gain/loss
\* is total profit - total loss; a flip with profit 0 adds to none of them.
C15_ProfitAndLoss ==
  (exported # Pending /\ exported.request[1] = "complete tax report") =>
    LET summary == exported.data.summary
    IN  /\ summary.totalProfit = SumOfGains(exported.data.flips)
        /\ summary.totalLoss = SumOfLosses(exported.data.flips)
        /\ summary.netGainLoss = NumSub(summary.totalProfit, summary.totalLoss)

\* the profits 100, -50 and 30 give total profit 130, total loss 50, net 80
C15_Witness ==
  /\ exported # Pending
  /\ exported.request[1] = "complete tax report"
  /\ db_flips = ExProfitFlips
  /\ [k \in 1..3 |-> exported.data.flips[k].totals.profit]
       = <<Num(100), Num(0 - 50), Num(30)>>
  /\ exported.data.summary.totalProfit = Num(130)
  /\ exported.data.summary.totalLoss = Num(50)
  /\ exported.data.summary.netGainLoss = Num(80)

(***************************************************************************)
(* C16  Sales, purchases, expenses and count of the aggregate summary      *)
(***************************************************************************)
\* the sum of the sell prices (0 when unset), of the buy prices and of the
\* per-flip total costs over the flips
RECURSIVE SumOfSales(_)
SumOfSales(flipsData) ==
  IF flipsData = <<>> THEN Num(0)
  ELSE NumAdd(SellPriceOrZero(Head(flipsData).flip), SumOfSales(Tail(flipsData)))

RECURSIVE SumOfPurchases(_)
SumOfPurchases(flipsData) ==
  IF flipsData = <<>> THEN Num(0)
  ELSE NumAdd(Head(flipsData).flip.buy_price, SumOfPurchases(Tail(flipsData)))

RECURSIVE SumOfCosts(_)
SumOfCosts(flipsData) ==
  IF flipsData = <<>> THEN Num(0)
  ELSE NumAdd(Head(flipsData).totals.totalCost, SumOfCosts(Tail(flipsData)))

\* C16: in the aggregate summary total sales is the sum of the sell prices
\* (0 for a flip without one), total purchases the sum of the buy prices,
\* total expenses the sum of the per-flip totalCost, and totalFlips the
\* number of flips; when no flip has a line item total expenses is 0.
C16_SummaryTotals ==
  (exported # Pending /\ exported.request[1] = "complete tax report") =>
    LET summary == exported.data.summary
    IN  /\ {exported.data.flips[k].flip : k \in 1..Len(exported.data.flips)}
             = {db_flips[i] : i \in 1..Len(db_flips)}
        /\ summary.totalFlips = Len(db_flips)
        /\ summary.totalSales = SumOfSales(exported.data.flips)
        /\ summary.totalPurchases = SumOfPurchases(exported.data.flips)
        /\ summary.totalExpenses = SumOfCosts(exported.data.flips)
        /\ db_line_items = <<>> => summary.totalExpenses = Num(0)

\* two flips, one of them without a sell price, and one expense
C16_Witness ==
  /\ exported # Pending
  /\ exported.request[1] = "complete tax report"
  /\ Len(db_flips) = 2
  /\ db_flips[1].sell_price = Null
  /\ db_flips[2].sell_price = Num(2)
  /\ Len(db_line_items) = 1
  /\ exported.data.summary.totalFlips = 2
  /\ exported.data.summary.totalSales = Num(2)
  /\ exported.data.summary.totalPurchases = NumAdd(db_flips[1].buy_price,
                                                   db_flips[2].buy_price)
  /\ exported.data.summary.totalExpenses = Num(1)

(***************************************************************************)
(* C17  Generating a report twice                                          *)
(***************************************************************************)
\* C17: a report (single-flip tax report, complete tax report or CSV)
\* generated twice from the same flip, line items and totals, with no change
\* to them in between, is the same text both times.  (No export changes the
\* tables, and exportedBefore is the previous export of the same request.)
C17_SameTextTwice ==
  (exported # Pending /\ exportedBefore # Pending) =>
    (exported.data = exportedBefore.data => exported.text = exportedBefore.text)

(***************************************************************************)
(* C18  duplicateFlip                                                      *)
(***************************************************************************)
\* the ids of the rows of a table
IdsOf(rows) == {rows[i].id : i \in 1..Len(rows)}

\* the copy has the vehicle fields and the buy price of the original, and
\* neither a sell price nor a sold date
CopiesFlip(original, copy) ==
  /\ copy.buy_price = original.buy_price
  /\ copy.year = original.year
  /\ copy.make = original.make
  /\ copy.model = original.model
  /\ copy.vin = original.vin
  /\ copy.miles = original.miles
  /\ copy.sell_price = Null
  /\ copy.sold_date = Null

\* the items of the copy are those of the original in title, amount and
\* category, under ids that no row had
CopiesLineItems(originals, copies, usedIds) ==
  /\ Len(copies) = Len(originals)
  /\ Cardinality(IdsOf(copies)) = Len(copies)
  /\ IdsOf(copies) \cap usedIds = {}
  /\ \A k \in 1..Len(copies) :
       /\ copies[k].title = originals[k].title
       /\ copies[k].amount = originals[k].amount
       /\ copies[k].category = originals[k].category

\* C18: duplicateFlip of an existing flip creates a flip with a new id, the
\* same buy price, year, make, model, VIN and miles (whatever value is
\* stored, 0 included), no sell price and no sold date, and line items of
\* its own with new ids, equal in number and content to the original's;
\* the original flip and its line items are unchanged.
C18_DuplicateCopies ==
  [][(lastCall'.op = "duplicateFlip" /\ ~IsThrown(lastCall'.result)) =>
       LET id        == lastCall'.id
           newFlipId == lastCall'.result.value
           original  == getFlipById(db_flips, id)
           copy      == getFlipById(db_flips', newFlipId)
       IN  /\ newFlipId \notin IdsOf(db_flips)
           /\ copy # Null
           /\ CopiesFlip(original, copy)
           /\ CopiesLineItems(getLineItemsByFlip(db_line_items, id),
                              getLineItemsByFlip(db_line_items', newFlipId),
                              IdsOf(db_line_items))
           /\ getFlipById(db_flips', id) = original
           /\ getLineItemsByFlip(db_line_items', id)
                = getLineItemsByFlip(db_line_items, id)]_vars

(***************************************************************************)
(* C19  Line items of a deleted flip                                       *)
(***************************************************************************)
\* C19: every line item belongs to an existing flip; in particular none
\* with flip_id = id is left after deleteFlip(id).
C19_NoOrphanLineItems ==
  \A i \in 1..Len(db_line_items) :
    getFlipById(db_flips, db_line_items[i].flip_id) # Null

(***************************************************************************)
(* C20  Bulk delete                                                        *)
(***************************************************************************)
\* C20: a confirmed bulk delete of a non-empty selection that completes
\* removes exactly the selected flips and leaves the others unchanged, and
\* afterwards the selection is empty and selection mode is off; if one of
\* its deletes fails, the selection and selection mode stay as they were.
C20_BulkDelete ==
  [][(lastCall'.op = "handleBulkDelete" /\ selectedFlips # <<>>) =>
       IF IsThrown(lastCall'.result)
       THEN /\ selectedFlips' = selectedFlips
            /\ isSelectionMode' = isSelectionMode
       ELSE /\ IdsOf(db_flips') =
                 IdsOf(db_flips) \ {selectedFlips[i] : i \in 1..Len(selectedFlips)}
            /\ \A id \in IdsOf(db_flips') :
                 getFlipById(db_flips', id) = getFlipById(db_flips, id)
            /\ selectedFlips' = <<>>
            /\ isSelectionMode' = FALSE]_vars

\* flip 1 of two was selected and deleted: flip 2 is left, nothing is
\* selected and selection mode is off
C20_Witness ==
  /\ lastCall # Pending
  /\ lastCall.op = "handleBulkDelete"
  /\ lastCall.id = <<1>>
  /\ ~IsThrown(lastCall.result)
  /\ IdsOf(db_flips) = {2}
  /\ selectedFlips = <<>>
  /\ ~isSelectionMode

(***************************************************************************)
(* C21  The flip sheet shows what the store holds                          *)
(***************************************************************************)
\* C21: on the flip sheet of a saved flip, whenever no handler is in
\* flight, the displayed line items are the store's line items of that flip
\* and the displayed totals are computeTotals over the store's flip and line
\* items.
C21_SheetShowsStore ==
  (screen = "FlipSheet" /\ flipId # NoFlipId /\ inFlight = <<>>) =>
    /\ lineItems = getLineItemsByFlip(db_line_items, flipId)
    /\ totals = computeTotals(db_flips, db_line_items, flipId)

(***************************************************************************)
(* C22  Sold flips stay sold                                               *)
(***************************************************************************)
\* C22: no step of the flip sheet (save, add or delete line item, mark
\* sold, duplicate) clears the sold date of a flip that has one and is still
\* in the store afterwards, and the flip that a duplication of a sold flip
\* adds has no sold date.
C22_SoldStaysSold ==
  [][/\ \A id \in IdsOf(db_flips) \cap IdsOf(db_flips') :
          getFlipById(db_flips, id).sold_date # Null
            => getFlipById(db_flips', id).sold_date # Null
     /\ (/\ screen = "FlipSheet"
         /\ flip # Null
         /\ getFlipById(db_flips, flipId) # Null
         /\ getFlipById(db_flips, flipId).sold_date # Null)
          => \A id \in IdsOf(db_flips') \ IdsOf(db_flips) :
               getFlipById(db_flips', id).sold_date = Null]_vars

\* flip 1, entered on the sheet with the buy price 2, is sold, and the sheet
\* shows flip 2, which has the same buy price and is open
C22_Witness ==
  /\ screen = "FlipSheet"
  /\ getFlipById(db_flips, 1) # Null
  /\ getFlipById(db_flips, 1).sold_date # Null
  /\ getFlipById(db_flips, 1).buy_price = Num(2)
  /\ getFlipById(db_flips, 2) # Null
  /\ getFlipById(db_flips, 2).buy_price = Num(2)
  /\ getFlipById(db_flips, 2).sold_date = Null
  /\ getFlipById(db_flips, 2).sell_price = Null
  /\ flipId = 2
  /\ flip # Null

(***************************************************************************)
(* C23  Every flip has a positive buy price                                *)
(***************************************************************************)
\* the buy price of every flip of the store is present and above zero
BuyPricesPositive ==
  \A i \in 1..Len(db_flips) :
    db_flips[i].buy_price # Null /\ NumGtZero(db_flips[i].buy_price)

\* a text of the buy price field that is missing, not a number, zero or
\* negative
InvalidBuyPriceText(text) ==
  isNaN(parseFloat(text)) \/ NumLeqZero(parseFloat(text))

\* C23: in every reachable state every flip of the store has a buy price
\* that is present and strictly positive, and a save with a missing,
\* non-numeric, zero or negative buy price leaves the store unchanged (no
\* step that changes the store is such a save).
C23_BuyPricePositive ==
  /\ []BuyPricesPositive
  /\ [][\/ UNCHANGED storeVars
        \/ \A b \in BuyPriceTexts : InvalidBuyPriceText(b) => ~saveFlip(b, <<>>)]_vars

\* the sheet of a saved flip after a rejected save of the buy price -1, with
\* a sample flip and a sheet-made flip in the store
C23_Witness ==
  /\ screen = "FlipSheet"
  /\ flipId # NoFlipId
  /\ buyPrice = <<"-", "1">>
  /\ isEditing
  /\ \E i \in 1..Len(db_flips) : db_flips[i].buy_price = Num(3500)
  /\ \E i \in 1..Len(db_flips) : db_flips[i].buy_price = Num(2)

(***************************************************************************)
(* C24  Every line item has a title, a positive amount and a saved flip    *)
(***************************************************************************)
\* every line item of the store has a non-empty title, an amount above zero
\* and a flip id that the flips table has handed out
LineItemsValid ==
  \A i \in 1..Len(db_line_items) :
    /\ db_line_items[i].title # <<>>
    /\ NumGtZero(db_line_items[i].amount)
    /\ db_line_items[i].flip_id \in 1..seq_flips

\* texts of the two new-item fields of which the amount or the description
\* is empty or blank, or the amount is not a number or not above zero
InvalidNewItemTexts(amountText, descriptionText) ==
  \/ Trim(amountText) = <<>>
  \/ Trim(descriptionText) = <<>>
  \/ isNaN(parseFloat(amountText))
  \/ ~NumGtZero(parseFloat(amountText))

\* C24: in every reachable state every line item of the store has a
\* non-empty title, a strictly positive amount and the id of a flip that was
\* saved before it, and adding an expense with an empty amount or
\* description, a non-numeric or non-positive amount, or on a sheet whose
\* flip is not saved yet leaves the store unchanged (no step that changes
\* the store is such an addition).
C24_LineItemsValid ==
  /\ []LineItemsValid
  /\ [][\/ UNCHANGED storeVars
        \/ \A a \in NewItemAmountTexts, d \in NewItemDescriptionTexts :
             (InvalidNewItemTexts(a, d) \/ flipId = NoFlipId) => ~handleAddLineItem(a, d)]_vars

\* the sheet of a flip with the expense x of amount 1, entered as " x", next
\* to the sample flip and its items
C24_Witness ==
  /\ screen = "FlipSheet"
  /\ flipId # NoFlipId
  /\ \E i \in 1..Len(lineItems) :
       lineItems[i].title = <<"x">> /\ lineItems[i].amount = Num(1)
  /\ \E i \in 1..Len(db_line_items) :
       db_line_items[i].title = <<"O", "F", "H", "G">>

(***************************************************************************)
(* C25  Which lines the per-category expense summaries print               *)
(***************************************************************************)
\* the text has a line of the template for the label
Printed(text, template, label) ==
  \E i \in 1..Len(text) : text[i].template = template /\ text[i].cells[1] = label

\* the text has a line of the template
HasLine(text, template) == \E i \in 1..Len(text) : text[i].template = template

\* at least one item carries the category
FallsIn(items, category) == \E a \in 1..Len(items) : items[a].category = category

\* the lines of the complete report from its combined summary on
CombinedSection(text) ==
  LET first == CHOOSE i \in 1..Len(text) :
                 text[i].template = "COMBINED EXPENSE SUMMARY BY CATEGORY"
  IN  SubSeq(text, first, Len(text))

\* the line items of all flips of the complete report
RECURSIVE AllLineItems(_)
AllLineItems(flipsData) ==
  IF flipsData = <<>> THEN <<>>
  ELSE Head(flipsData).lineItems \o AllLineItems(Tail(flipsData))

\* C25: in the expense summary of the single-flip report and in the expense
\* breakdown of each vehicle of the complete report, the line of a named
\* category is printed if and only if an item carries that category, and
\* the line of the items without a category is left out when their total is
\* zero; in the combined summary of the complete report, where an item
\* without a category counts as misc, a category has a line if and only if
\* an item falls in it.
C25_SummaryLines ==
  exported # Pending =>
    /\ exported.request[1] = "tax report" =>
         LET items == exported.data.lineItems
         IN  /\ \A k \in 1..Len(categories) :
                  Printed(exported.text, "category total", categories[k])
                    <=> FallsIn(items, categories[k])
             /\ SumOfCategory(items, Null) = Num(0) =>
                  ~HasLine(exported.text, "Miscellaneous")
    /\ exported.request[1] = "complete tax report" =>
         /\ \A v \in 1..Len(exported.data.flips) :
              LET items == exported.data.flips[v].lineItems
                  text  == VehicleSection(exported.text, v)
              IN  /\ \A k \in 1..Len(categories) :
                       Printed(text, "category", categories[k])
                         <=> FallsIn(items, categories[k])
                  /\ SumOfCategory(items, Null) = Num(0) =>
                       ~HasLine(text, "MISCELLANEOUS")
         /\ LET items == AllLineItems(exported.data.flips)
                text  == CombinedSection(exported.text)
            IN  \A k \in 1..Len(categories) :
                  Printed(text, "combined", categories[k])
                    <=> \/ FallsIn(items, categories[k])
                        \/ categories[k] = Misc /\ FallsIn(items, Null)

\* the single-flip report of a flip with two parts items and a labor item:
\* it prints the parts and the labor line, no fees line, no misc line and
\* no line of items without a category
C25_Witness ==
  /\ exported # Pending
  /\ exported.request = <<"tax report", 1>>
  /\ exported.data.lineItems = ExGroupingItems
  /\ Printed(exported.text, "category total", Parts)
  /\ Printed(exported.text, "category total", Labor)
  /\ ~Printed(exported.text, "category total", Fees)
  /\ ~Printed(exported.text, "category total", Misc)
  /\ ~HasLine(exported.text, "Miscellaneous")

(***************************************************************************)
(* C26  The combined summary of the complete report                        *)
(***************************************************************************)
\* the grand-total lines of the combined summary, as printed
CombinedLines(text) ==
  SelectSeq(CombinedSection(text), LAMBDA line : line.template = "combined")

\* the sum over all items of a category, the items without a category
\* counted under misc
GrandTotal(items, category) ==
  NumAdd(SumOfCategory(items, category),
         IF category = Misc THEN SumOfCategory(items, Null) ELSE Num(0))

\* C26: the grand-total lines of the combined summary of the complete
\* report stand in the order parts, labor, fees, misc whatever the order of
\* the flips and line items, and each shows the sum over all flips of the
\* amounts of its category, the items without a category counted as misc.
C26_CombinedOrder ==
  (exported # Pending /\ exported.request[1] = "complete tax report") =>
    LET lines == CombinedLines(exported.text)
        items == AllLineItems(exported.data.flips)
    IN  /\ \A i, j \in 1..Len(lines) :
             i < j => CategoryRank(lines[i].cells[1]) < CategoryRank(lines[j].cells[1])
        /\ \A i \in 1..Len(lines) :
             lines[i].cells[2] = formatCurrency(GrandTotal(items, lines[i].cells[1]))

\* the part of C26 about the amounts: each grand-total line shows the sum
\* of its category over all flips
C26_GrandTotals ==
  (exported # Pending /\ exported.request[1] = "complete tax report") =>
    LET lines == CombinedLines(exported.text)
        items == AllLineItems(exported.data.flips)
    IN  \A i \in 1..Len(lines) :
          lines[i].cells[2] = formatCurrency(GrandTotal(items, lines[i].cells[1]))

(***************************************************************************)
(* C27  Fallback form                                                      *)
(***************************************************************************)
\* the leading arithmetic characters of s, white space removed
FallbackE(s) == RemoveSpaces(SubSeq(s, 1, RunAfter(s, 0, ArithChars)))

\* the text that follows the leading arithmetic characters of s, trimmed
FallbackT(s) == Trim(SubSeq(s, RunAfter(s, 0, ArithChars) + 1, Len(s)))

\* s is left to the fallback form: neither the labeled nor the spaced
\* pattern can split it
IsFallbackInput(s) == s # <<>> /\ ~LabeledMatches(s) /\ ~SpacedMatches(s)

C27_WitnessText ==
  \/ qeInput = <<"2", "x">> /\ qeResult = Success(ToBinary64(Num(2)), <<"x">>)
  \/ qeInput \in {<<"x", "2">>, <<"$", "2">>} /\ qeResult = Failure(ErrCouldNotParse)

(***************************************************************************)
(* C28  The selection of the Home screen                                   *)
(***************************************************************************)
\* the ids of the flips listed in the selected tab
ShownIds == {filteredFlips(db_flips, selectedTab)[i].id :
               i \in 1..Len(filteredFlips(db_flips, selectedTab))}

\* C28: on the Home screen every selected flip id is the id of a flip
\* listed in the selected tab, after any sequence of long presses, presses,
\* Select All, Deselect All, Cancel and tab switches.
C28_SelectedAreShown ==
  \A i \in 1..Len(selectedFlips) : selectedFlips[i] \in ShownIds

\* the same for the steps of the selection alone: a tab switch leaves every
\* selected id listed
C28_TabSwitchKeepsShown ==
  [][(\E tab \in {"open", "sold"} : setSelectedTab(tab)) =>
       \A i \in 1..Len(selectedFlips') :
         selectedFlips'[i] \in
           {filteredFlips(db_flips', selectedTab')[k].id :
              k \in 1..Len(filteredFlips(db_flips', selectedTab'))}]_vars

(***************************************************************************)
(* C29  Every line item is listed once and the subtotals add up            *)
(***************************************************************************)
\* the sum of the groups for which the text prints a subtotal: the named
\* categories from categories[k] on
RECURSIVE PrintedCategorySum(_, _, _, _)
PrintedCategorySum(text, template, items, k) ==
  IF k > Len(categories) THEN Num(0)
  ELSE NumAdd(IF Printed(text, template, categories[k])
              THEN SumOfCategory(items, categories[k]) ELSE Num(0),
              PrintedCategorySum(text, template, items, k + 1))

\* every item is listed on one line, the subtotal of the items without a
\* category shows their sum, and the groups with a printed subtotal add up
\* to totalCost
ListedOnceAndAddsUp(text, template, uncategorizedTemplate, items, totalCost) ==
  /\ \A a \in 1..Len(items) : Cardinality(ListedAt(text, items[a].title)) = 1
  /\ Cardinality(UNION {ListedAt(text, items[a].title) : a \in 1..Len(items)})
       = Cardinality({i \in 1..Len(text) : text[i].template \in {"expense", "item"}})
  /\ \A i \in 1..Len(text) :
       text[i].template = uncategorizedTemplate =>
         text[i].cells[1] = formatCurrency(SumOfCategory(items, Null))
  /\ NumAdd(PrintedCategorySum(text, template, items, 1),
            IF HasLine(text, uncategorizedTemplate)
            THEN SumOfCategory(items, Null) ELSE Num(0)) = totalCost

\* C29: in the single-flip report and in every vehicle section of the
\* complete report each line item of the flip is listed on exactly one
\* line, no line lists anything else, and the subtotals printed for the
\* categories and for the items without a category add up to the flip's
\* totalCost.
C29_ListedOnce ==
  exported # Pending =>
    /\ exported.request[1] = "tax report" =>
         ListedOnceAndAddsUp(exported.text, "category total", "Miscellaneous",
                             exported.data.lineItems, exported.data.totals.totalCost)
    /\ exported.request[1] = "complete tax report" =>
         \A v \in 1..Len(exported.data.flips) :
           ListedOnceAndAddsUp(VehicleSection(exported.text, v), "category",
                               "MISCELLANEOUS", exported.data.flips[v].lineItems,
                               exported.data.flips[v].totals.totalCost)

\* a vehicle of the complete report whose first item has no category and
\* whose second is a parts item: both are listed, and the parts subtotal 2
\* and the subtotal 1 of the items without a category make the totalCost 3
C29_Witness ==
  /\ exported # Pending
  /\ exported.request[1] = "complete tax report"
  /\ \E v \in 1..Len(exported.data.flips) :
       LET items == exported.data.flips[v].lineItems
           text  == VehicleSection(exported.text, v)
       IN  /\ Len(items) = 2
           /\ items[1].category = Null
           /\ items[2].category = Parts
           /\ Printed(text, "category", Parts)
           /\ HasLine(text, "MISCELLANEOUS")
           /\ exported.data.flips[v].totals.totalCost = Num(3)

(***************************************************************************)
(* C30  The totals of the flips listed on Home                             *)
(***************************************************************************)
\* the totals map has the entry for the flip
HasTotalsOf(map, id, value) ==
  \E i \in 1..Len(map) : map[i][1] = id /\ map[i][2] = value

\* C30: whenever Home has the focus (its refresh and its loading of the
\* totals are complete), the totals map has an entry for every flip of the
\* displayed list, equal to computeTotals of that flip on the store.
C30_TotalsOfListedFlips ==
  screen = "Home" =>
    \A i \in 1..Len(filteredFlips(db_flips, selectedTab)) :
      HasTotalsOf(flipTotals, filteredFlips(db_flips, selectedTab)[i].id,
                  computeTotals(db_flips, db_line_items,
                                filteredFlips(db_flips, selectedTab)[i].id))

====
